---- MODULE Spec2Model ----
(***************************************************************************)
(* A model of the EMI-LY voice assistant: the command registry and its     *)
(* dispatcher (command_handler.py), the wake-word / endpointing pipeline   *)
(* (voice_activation.py) and the text-to-speech queue (tts_engine.py).     *)
(*                                                                         *)
(* Text is modelled as a sequence of Unicode code points, so that          *)
(* str.lower(), str.strip() and the "in" substring test are computed.      *)
(* Replies are kept as transliterated strings.                             *)
(***************************************************************************)
EXTENDS Integers, Sequences, FiniteSets, TLC

VARIABLES
  commands,           \* CommandHandler.commands: the dict, in insertion order
  enable_tts,         \* CommandHandler.enable_tts
  tts_engine,         \* CommandHandler.tts_engine: "ready", or "none" for None
  tts_shutdown_flag,  \* TTSEngine._shutdown_flag
  speech_queue,       \* TTSEngine.speech_queue
  last_call           \* what the latest execute_command call did and returned,
                      \* forgotten when the registry is changed

dispatchVars == <<commands, enable_tts, tts_engine, tts_shutdown_flag,
                  speech_queue, last_call>>

VARIABLES
  pc,                   \* where the pipeline thread is in start_listening
  is_listening,         \* VoiceActivation.is_listening
  is_recording,         \* VoiceActivation.is_recording
  audio_queue,          \* VoiceActivation.audio_queue
  captured,             \* how many frames the capture callback has delivered
  stream_open,          \* the "with sd.InputStream(...)" block is entered
  porcupine,            \* VoiceActivation.porcupine: "ready", or "none"
  speech_recognizer,    \* VoiceActivation.speech_recognizer: "ready", or "none"
  noise_profile,        \* VoiceActivation.noise_profile (0 while None)
  noise_adapted,        \* VoiceActivation.noise_adapted
  activation_count,     \* VoiceActivation.activation_count
  recorded_audio,       \* record_until_silence's buffer: the ids of its frames
  silence_start_time,   \* record_until_silence's local
  recording_start_time, \* record_until_silence's local
  now,                  \* time.time()
  recognized_text,      \* process_command's local
  exc_pending,          \* an exception is on its way out of process_command
  stt_dirty,            \* the recognizer holds state of an utterance
  stop_called,          \* stop_listening was called since start_listening
  cancelled,            \* the episode was being recorded at or after a stop
  end_reason,           \* why the episode's loop was left
  episodes_started,     \* how many times is_recording was set
  silent_run,           \* length of the latest unbroken run of silent frames
  paced,                \* the episode's frames were taken one clock step apart
  last_get_time,        \* when the episode's latest frame was taken
  over_cap,             \* the latest loop iteration ended past the ceiling
  recognize_calls,      \* how many times recognize_audio was called
  reset_calls,          \* how many times reset_recognizer was called
  stt_error,            \* the engine raised in the cycle's recognize_audio
  calibration,          \* whether adapt_to_noise has run, the samples it
                        \* captured, and whether start_listening has since
                        \* skipped it
  detector_error,       \* Porcupine raised on the frame the gate just took
  silence_run_start,    \* when the first frame of the latest unbroken run of
                        \* silent frames was taken
  episode_base,         \* how many frames had left the queue when the
                        \* episode began
  run_broken,           \* a non-silent frame has ended a run of silent
                        \* frames in the episode
  cleanup_result,       \* how the latest call of cleanup ended
  probe,                \* the latest direct call of is_silence and its result
  tts_obj,              \* TTSEngine.engine: "ready", or "none" for None
  speak_pending,        \* the text of a TTSEngine.speak call that has passed
                        \* its test and not yet put the text, if any
  worker_pc,            \* where the worker thread is in _process_queue
  shutdown_pc,          \* where a call of TTSEngine.shutdown is
  late_speech,          \* the worker began to speak a text after shutdown
                        \* had returned
  main_is_recording,    \* main.py's global is_recording
  main_audio_queue,     \* main.py's global audio_queue
  audio_data,           \* main.py's global audio_data: the ids of its frames
  main_recorded_audio,  \* main.py's global recorded_audio
  main_pc,              \* where the command loop of main is
  callback_pc,          \* where the capture callback of main.py is
  drain_pc,             \* where the thread of process_audio is
  drain_data,           \* process_audio's local data
  main_captured,        \* how many frames main.py's callback has enqueued
  recognized_audio,     \* what command "3" last gave the recognizer
  enqueued,             \* the frames enqueued since the latest command "1"
                        \* began and before the command "2" after it began
  window_open           \* a command "1" has begun and no command "2" since

configVars == <<porcupine, speech_recognizer>>
noiseVars == <<noise_profile, noise_adapted>>
recVars == <<recorded_audio, silence_start_time, recording_start_time>>
procVars == <<recognized_text, exc_pending, stt_dirty>>
histVars == <<stop_called, cancelled, end_reason, episodes_started, silent_run,
              paced, last_get_time, over_cap>>

obsVars == <<recognize_calls, reset_calls, stt_error, calibration,
             detector_error>>

episodeVars == <<silence_run_start, episode_base, run_broken>>
ttsVars == <<tts_obj, speak_pending, worker_pc, shutdown_pc, late_speech>>
recorderVars ==
  <<main_is_recording, main_audio_queue, audio_data, main_recorded_audio,
    main_pc, callback_pc, drain_pc, drain_data, main_captured,
    recognized_audio, enqueued, window_open>>
methodVars == <<cleanup_result, probe, ttsVars, recorderVars>>
auxVars == <<episodeVars, methodVars>>

\* what a listening session reads and writes
sessionVars ==
  <<pc, is_listening, is_recording, audio_queue, captured, stream_open,
    configVars, noiseVars, activation_count, recVars, now, procVars, histVars,
    obsVars, episodeVars>>

pipelineVars == <<sessionVars, methodVars>>

vars == <<dispatchVars, pipelineVars>>

----------------------------------------------------------------------------
(* Bounds of the model. *)

\* at most this many custom phrases are registered at a time
MaxCustom == 2
\* the dispatcher is not stepped while this many texts wait to be spoken
MaxSpeechQueue == 1
\* the capture callback delivers at most this many frames
MaxFrames == 4
\* the capture queue is not filled beyond this many frames
MaxQueue == 2
\* seconds by which the clock advances in one step
TickStep == 10
\* the clock is not advanced past this second
MaxTime == 40

----------------------------------------------------------------------------
(* Strings. *)

\* str.lower() on one character: ASCII and Cyrillic capitals
LowerChar(c) ==
  IF (c >= 65 /\ c <= 90) \/ (c >= 1040 /\ c <= 1071) THEN c + 32
  ELSE IF c = 1025 THEN 1105
  ELSE c

Lower(s) == [i \in 1..Len(s) |-> LowerChar(s[i])]

\* the characters str.strip() removes (str.isspace)
Whitespace == {9, 10, 11, 12, 13, 28, 29, 30, 31, 32, 133, 160}

RECURSIVE LStrip(_)
LStrip(s) == IF s # <<>> /\ Head(s) \in Whitespace THEN LStrip(Tail(s)) ELSE s

RECURSIVE RStrip(_)
RStrip(s) ==
  IF s # <<>> /\ s[Len(s)] \in Whitespace
  THEN RStrip(SubSeq(s, 1, Len(s) - 1))
  ELSE s

Strip(s) == RStrip(LStrip(s))

\* Python's "p in t" on strings
IsSubstring(p, t) ==
  \/ p = <<>>
  \/ \E i \in 1..(Len(t) - Len(p) + 1) :
       t[i] = p[1] /\ SubSeq(t, i, i + Len(p) - 1) = p

Digits == <<"0", "1", "2", "3", "4", "5", "6", "7", "8", "9">>

Pad2(n) == <<Digits[(n \div 10) + 1], Digits[(n % 10) + 1]>>

\* the time without its seconds
FormatHM(t) == Pad2(t \div 3600) \o <<":">> \o Pad2((t \div 60) % 60)

\* strftime("%H:%M:%S") of a second of the day
FormatHMS(t) ==
  Pad2(t \div 3600) \o <<":">> \o Pad2((t \div 60) % 60) \o <<":">> \o Pad2(t % 60)

\* strftime("%d.%m.%Y") of a date
FormatDMY(d) ==
  Pad2(d.day) \o <<".">> \o Pad2(d.month) \o <<".">>
    \o Pad2(d.year \div 100) \o Pad2(d.year % 100)

----------------------------------------------------------------------------
(* Responses and effects. *)

\* a response string: a fixed text followed by a formatted argument
Response(text, arg) == [text |-> text, arg |-> arg]
Reply(text) == Response(text, <<>>)
EmptyResponse == Reply("")
\* Python truthiness of a str
Truthy(r) == r # EmptyResponse

\* readings of datetime.now() the effects may see
ClockSamples == {0, 45296, 86399}
DateSamples == {[day |-> 3, month |-> 11, year |-> 2026]}

Ok(r) == [raised |-> FALSE, value |-> r, exc |-> ""]
Raise(e) == [raised |-> TRUE, value |-> EmptyResponse, exc |-> e]

LambdaReply(effect) ==
  CASE effect = "lambda_56" -> "Privet! Chem mogu pomoch?"
    [] effect = "lambda_57" -> "Zdravstvuyte! Rad vas slyshat."
    [] effect = "lambda_58" -> "Dobryy den! Chem mogu byt polezen?"
    [] effect = "lambda_61" -> "Vsyo otlichno! Gotova vypolnyat vashi komandy."
    [] effect = "lambda_62" -> "U menya vsyo prekrasno, spasibo chto sprosili!"
    [] effect = "lambda_63" -> "Vsyo khorosho, rabotayu v shtatnom rezhime!"
    [] effect = "lambda_64" -> "U menya vsegda otlichnoe nastroenie!"
    [] effect = "lambda_65" -> "Zhizn prekrasna, osobenno kogda mogu pomoch!"
    [] effect = "lambda_68" -> "Pozhaluysta! Obrashchaytes eshchyo."
    [] effect = "lambda_69" -> "Vsegda rada pomoch!"
    [] effect = "lambda_101" -> "Ya golosovoy assistent, sozdannyy dlya pomoshchi v povsednevnykh zadachakh."
    [] effect = "lambda_102" -> "Ya vash golosovoy pomoshchnik, gotovyy pomoch s razlichnymi zadachami."
    [] OTHER -> ""

\* the handlers a caller may pass to add_custom_command
CustomEffects == {"custom_f", "custom_g"}

restart_computer ==
  { Ok(Reply("Kompyuter budet perezagruzhen cherez 5 sekund")),
    Ok(Reply("Kompyuter perezagruzhaetsya")),
    Ok(Reply("Perezagruzka ne podderzhivaetsya na etoy sisteme")) }

shutdown_computer ==
  { Ok(Reply("Kompyuter budet vyklyuchen cherez 5 sekund")),
    Ok(Reply("Kompyuter vyklyuchaetsya")),
    Ok(Reply("Vyklyuchenie ne podderzhivaetsya na etoy sisteme")) }

open_task_manager ==
  { Ok(Reply("Dispetcher zadach otkryt")),
    Ok(Reply("Sistemnyy monitor otkryt")),
    Ok(Reply("Dispetcher zadach ne podderzhivaetsya na etoy sisteme")) }

show_system_info == { Ok(Response("Informatsiya o sisteme:", <<"system_info">>)) }

clear_screen == { Ok(Reply("Ekran ochishchen")) }

open_notepad ==
  { Ok(Reply("Bloknot otkryt")),
    Ok(Reply("Tekstovyy redaktor otkryt")),
    Ok(Reply("Bloknot ne podderzhivaetsya na etoy sisteme")) }

open_calculator ==
  { Ok(Reply("Kalkulyator otkryt")),
    Ok(Reply("Kalkulyator ne podderzhivaetsya na etoy sisteme")) }

open_explorer ==
  { Ok(Reply("Provodnik otkryt")),
    Ok(Reply("Faylovyy menedzher otkryt")),
    Ok(Reply("Provodnik ne podderzhivaetsya na etoy sisteme")) }

\* webbrowser errors are caught inside open_browser
open_browser ==
  { Ok(Reply("Brauzer otkryt")),
    Ok(Response("Ne udalos otkryt brauzer: ", <<"webbrowser.Error">>)) }

\* webbrowser errors are not caught inside open_youtube and open_google
open_youtube == { Ok(Reply("YouTube otkryt")), Raise("webbrowser.Error") }

open_google == { Ok(Reply("Google otkryt")), Raise("webbrowser.Error") }

show_time == { Ok(Response("Seychas ", FormatHMS(t))) : t \in ClockSamples }

show_date == { Ok(Response("Segodnya ", FormatDMY(d))) : d \in DateSamples }

show_capabilities ==
  { Ok(Reply("Ya umeyu:\n- Upravlenie sistemoy: perezagruzka, vyklyuchenie\n- Otkrytie prilozheniy: brauzer, bloknot, kalkulyator\n- Informatsiya: vremya, data, sistemnaya informatsiya\n- Veb-komandy: otkrytie saytov\n- I mnogoe drugoe!")) }

\* a caller's handler that returns a text or raises
custom_f == { Ok(Reply("custom_f done")), Raise("RuntimeError") }

\* a caller's handler that returns the empty string
custom_g == { Ok(EmptyResponse) }

\* what calling an effect can do: return a response, or raise an Exception
EffectOutcomes(effect) ==
  CASE effect = "restart_computer" -> restart_computer
    [] effect = "shutdown_computer" -> shutdown_computer
    [] effect = "open_task_manager" -> open_task_manager
    [] effect = "show_system_info" -> show_system_info
    [] effect = "clear_screen" -> clear_screen
    [] effect = "open_notepad" -> open_notepad
    [] effect = "open_calculator" -> open_calculator
    [] effect = "open_explorer" -> open_explorer
    [] effect = "open_browser" -> open_browser
    [] effect = "open_youtube" -> open_youtube
    [] effect = "open_google" -> open_google
    [] effect = "show_time" -> show_time
    [] effect = "show_date" -> show_date
    [] effect = "show_capabilities" -> show_capabilities
    [] effect = "custom_f" -> custom_f
    [] effect = "custom_g" -> custom_g
    [] OTHER -> { Ok(Reply(LambdaReply(effect))) }

(* The built-in registry, in dict literal order.  Phrases are sequences of
   Unicode code points; the comment gives each phrase transliterated. *)
_initialize_commands ==
  <<
    (* L56 "privet" *)
    [phrase |-> <<1087, 1088, 1080, 1074, 1077, 1090>>,
     effect |-> "lambda_56"],
    (* L57 "zdravstvuy" *)
    [phrase |-> <<1079, 1076, 1088, 1072, 1074, 1089, 1090, 1074, 1091, 1081>>,
     effect |-> "lambda_57"],
    (* L58 "dobryy den" *)
    [phrase |-> <<1076, 1086, 1073, 1088, 1099, 1081, 32, 1076, 1077, 1085, 1100>>,
     effect |-> "lambda_58"],
    (* L61 "kak dela" *)
    [phrase |-> <<1082, 1072, 1082, 32, 1076, 1077, 1083, 1072>>,
     effect |-> "lambda_61"],
    (* L62 "kak tvoi dela" *)
    [phrase |-> <<1082, 1072, 1082, 32, 1090, 1074, 1086, 1080, 32, 1076, 1077, 1083, 1072>>,
     effect |-> "lambda_62"],
    (* L63 "kak ty" *)
    [phrase |-> <<1082, 1072, 1082, 32, 1090, 1099>>,
     effect |-> "lambda_63"],
    (* L64 "kak nastroenie" *)
    [phrase |-> <<1082, 1072, 1082, 32, 1085, 1072, 1089, 1090, 1088, 1086, 1077, 1085, 1080, 1077>>,
     effect |-> "lambda_64"],
    (* L65 "kak zhizn" *)
    [phrase |-> <<1082, 1072, 1082, 32, 1078, 1080, 1079, 1085, 1100>>,
     effect |-> "lambda_65"],
    (* L68 "spasibo" *)
    [phrase |-> <<1089, 1087, 1072, 1089, 1080, 1073, 1086>>,
     effect |-> "lambda_68"],
    (* L69 "blagodaryu" *)
    [phrase |-> <<1073, 1083, 1072, 1075, 1086, 1076, 1072, 1088, 1102>>,
     effect |-> "lambda_69"],
    (* L72 "perezagruzi kompyuter" *)
    [phrase |-> <<1087, 1077, 1088, 1077, 1079, 1072, 1075, 1088, 1091, 1079, 1080, 32, 1082, 1086, 1084, 1087, 1100, 1102, 1090, 1077, 1088>>,
     effect |-> "restart_computer"],
    (* L73 "vyklyuchi kompyuter" *)
    [phrase |-> <<1074, 1099, 1082, 1083, 1102, 1095, 1080, 32, 1082, 1086, 1084, 1087, 1100, 1102, 1090, 1077, 1088>>,
     effect |-> "shutdown_computer"],
    (* L74 "otkroy dispetcher zadach" *)
    [phrase |-> <<1086, 1090, 1082, 1088, 1086, 1081, 32, 1076, 1080, 1089, 1087, 1077, 1090, 1095, 1077, 1088, 32, 1079, 1072, 1076, 1072, 1095>>,
     effect |-> "open_task_manager"],
    (* L75 "pokazhi sistemnuyu informatsiyu" *)
    [phrase |-> <<1087, 1086, 1082, 1072, 1078, 1080, 32, 1089, 1080, 1089, 1090, 1077, 1084, 1085, 1091, 1102, 32, 1080, 1085, 1092, 1086, 1088, 1084, 1072, 1094, 1080, 1102>>,
     effect |-> "show_system_info"],
    (* L76 "ochisti ekran" *)
    [phrase |-> <<1086, 1095, 1080, 1089, 1090, 1080, 32, 1101, 1082, 1088, 1072, 1085>>,
     effect |-> "clear_screen"],
    (* L79 "otkroy bloknot" *)
    [phrase |-> <<1086, 1090, 1082, 1088, 1086, 1081, 32, 1073, 1083, 1086, 1082, 1085, 1086, 1090>>,
     effect |-> "open_notepad"],
    (* L80 "otkroy kalkulyator" *)
    [phrase |-> <<1086, 1090, 1082, 1088, 1086, 1081, 32, 1082, 1072, 1083, 1100, 1082, 1091, 1083, 1103, 1090, 1086, 1088>>,
     effect |-> "open_calculator"],
    (* L81 "otkroy provodnik" *)
    [phrase |-> <<1086, 1090, 1082, 1088, 1086, 1081, 32, 1087, 1088, 1086, 1074, 1086, 1076, 1085, 1080, 1082>>,
     effect |-> "open_explorer"],
    (* L82 "otkroy brauzer" *)
    [phrase |-> <<1086, 1090, 1082, 1088, 1086, 1081, 32, 1073, 1088, 1072, 1091, 1079, 1077, 1088>>,
     effect |-> "open_browser"],
    (* L85 "kotoryy chas" *)
    [phrase |-> <<1082, 1086, 1090, 1086, 1088, 1099, 1081, 32, 1095, 1072, 1089>>,
     effect |-> "show_time"],
    (* L86 "skolko vremya" *)
    [phrase |-> <<1089, 1082, 1086, 1083, 1100, 1082, 1086, 32, 1074, 1088, 1077, 1084, 1103>>,
     effect |-> "show_time"],
    (* L87 "kakoe vremya" *)
    [phrase |-> <<1082, 1072, 1082, 1086, 1077, 32, 1074, 1088, 1077, 1084, 1103>>,
     effect |-> "show_time"],
    (* L88 "tekushchee vremya" *)
    [phrase |-> <<1090, 1077, 1082, 1091, 1097, 1077, 1077, 32, 1074, 1088, 1077, 1084, 1103>>,
     effect |-> "show_time"],
    (* L89 "kakaya data" *)
    [phrase |-> <<1082, 1072, 1082, 1072, 1103, 32, 1076, 1072, 1090, 1072>>,
     effect |-> "show_date"],
    (* L90 "kakoe segodnya chislo" *)
    [phrase |-> <<1082, 1072, 1082, 1086, 1077, 32, 1089, 1077, 1075, 1086, 1076, 1085, 1103, 32, 1095, 1080, 1089, 1083, 1086>>,
     effect |-> "show_date"],
    (* L91 "tekushchaya data" *)
    [phrase |-> <<1090, 1077, 1082, 1091, 1097, 1072, 1103, 32, 1076, 1072, 1090, 1072>>,
     effect |-> "show_date"],
    (* L94 "otkroy youtube" *)
    [phrase |-> <<1086, 1090, 1082, 1088, 1086, 1081, 32, 121, 111, 117, 116, 117, 98, 101>>,
     effect |-> "open_youtube"],
    (* L95 "otkroy yutub" *)
    [phrase |-> <<1086, 1090, 1082, 1088, 1086, 1081, 32, 1102, 1090, 1091, 1073>>,
     effect |-> "open_youtube"],
    (* L96 "otkroy google" *)
    [phrase |-> <<1086, 1090, 1082, 1088, 1086, 1081, 32, 103, 111, 111, 103, 108, 101>>,
     effect |-> "open_google"],
    (* L97 "otkroy gugl" *)
    [phrase |-> <<1086, 1090, 1082, 1088, 1086, 1081, 32, 1075, 1091, 1075, 1083>>,
     effect |-> "open_google"],
    (* L100 "chto ty umeesh" *)
    [phrase |-> <<1095, 1090, 1086, 32, 1090, 1099, 32, 1091, 1084, 1077, 1077, 1096, 1100>>,
     effect |-> "show_capabilities"],
    (* L101 "rasskazhi o sebe" *)
    [phrase |-> <<1088, 1072, 1089, 1089, 1082, 1072, 1078, 1080, 32, 1086, 32, 1089, 1077, 1073, 1077>>,
     effect |-> "lambda_101"],
    (* L102 "kto ty" *)
    [phrase |-> <<1082, 1090, 1086, 32, 1090, 1099>>,
     effect |-> "lambda_102"]
  >>

----------------------------------------------------------------------------
(* The registry: a Python dict, which keeps insertion order. *)

\* position of key k in the dict, 0 when k is not a key
KeyIndex(cmds, k) ==
  IF \E i \in 1..Len(cmds) : cmds[i].phrase = k
  THEN CHOOSE i \in 1..Len(cmds) : cmds[i].phrase = k
  ELSE 0

\* an assignment that moves the key to the end
DictSetMovesLast(cmds, k, f) ==
  Append(SelectSeq(cmds, LAMBDA e : e.phrase # k), [phrase |-> k, effect |-> f])

\* d[k] = f: a present key keeps its position, a new key goes last
DictSet(cmds, k, f) ==
  IF KeyIndex(cmds, k) # 0
  THEN [cmds EXCEPT ![KeyIndex(cmds, k)].effect = f]
  ELSE Append(cmds, [phrase |-> k, effect |-> f])

\* del d[k]
DictDel(cmds, k) ==
  SubSeq(cmds, 1, KeyIndex(cmds, k) - 1)
    \o SubSeq(cmds, KeyIndex(cmds, k) + 1, Len(cmds))

\* "if command_lower in self.commands": the entry that is the text, or 0
ExactMatch(cmds, command_lower) == KeyIndex(cmds, command_lower)

\* "for cmd, func in self.commands.items(): if cmd in command_lower", from
\* entry i on: the first entry in dict order whose phrase is a substring of
\* the text, or 0
RECURSIVE FirstSubstringFrom(_, _, _)
FirstSubstringFrom(cmds, command_lower, i) ==
  IF i > Len(cmds) THEN 0
  ELSE IF IsSubstring(cmds[i].phrase, command_lower) THEN i
  ELSE FirstSubstringFrom(cmds, command_lower, i + 1)

\* the same scan keeping the last hit instead of stopping at the first
RECURSIVE LastSubstringFrom(_, _, _)
LastSubstringFrom(cmds, command_lower, i) ==
  IF i > Len(cmds) THEN 0
  ELSE IF LastSubstringFrom(cmds, command_lower, i + 1) # 0
       THEN LastSubstringFrom(cmds, command_lower, i + 1)
  ELSE IF IsSubstring(cmds[i].phrase, command_lower) THEN i
  ELSE 0

PartialMatchLast(cmds, command_lower) == LastSubstringFrom(cmds, command_lower, 1)

PartialMatch(cmds, command_lower) == FirstSubstringFrom(cmds, command_lower, 1)

\* "command_text.lower().strip()"
Normalize(command_text) == Strip(Lower(command_text))

\* the entry execute_command selects for a text, or 0
MatchIndex(cmds, command_text) ==
  LET command_lower == Normalize(command_text)
      exact == ExactMatch(cmds, command_lower)
  IN IF exact # 0 THEN exact ELSE PartialMatch(cmds, command_lower)

\* what the selected effect can do when called
MatchOutcomes(cmds, command_text) ==
  LET m == MatchIndex(cmds, command_text)
  IN IF m = 0 THEN {Ok(EmptyResponse)} ELSE EffectOutcomes(cmds[m].effect)

GenericError == Reply("Proizoshla oshibka")
ErrorMsg(e) == Response("Oshibka vypolneniya komandy: ", <<e>>)
NotFoundResponse ==
  Reply("Izvinite, ya ne ponyal komandu. Poprobuyte skazat inache.")

\* the effect called with no try/except around it
InvokeEffectUncaught(outcome) ==
  IF outcome.raised
  THEN [result |-> EmptyResponse, spoken |-> <<>>, propagated |-> TRUE]
  ELSE [result |-> outcome.value, spoken |-> <<outcome.value>>,
        propagated |-> FALSE]

\* the handler speaking the message it returns
InvokeEffectSpeaksMessage(outcome) ==
  IF outcome.raised
  THEN [result |-> ErrorMsg(outcome.exc), spoken |-> <<ErrorMsg(outcome.exc)>>,
        propagated |-> FALSE]
  ELSE [result |-> outcome.value, spoken |-> <<outcome.value>>,
        propagated |-> FALSE]

\* the try/except around the call of the effect: what is returned, what is
\* handed to speak_response, and whether the exception leaves execute_command
InvokeEffect(outcome) ==
  IF outcome.raised
  THEN [result |-> ErrorMsg(outcome.exc), spoken |-> <<GenericError>>,
        propagated |-> FALSE]
  ELSE [result |-> outcome.value, spoken |-> <<outcome.value>>,
        propagated |-> FALSE]

\* the tail returning without the fixed reply
NotFoundSilent ==
  [result |-> EmptyResponse, spoken |-> <<>>, propagated |-> FALSE]

\* the "not found" tail of execute_command
NotFound ==
  [result |-> NotFoundResponse, spoken |-> <<NotFoundResponse>>,
   propagated |-> FALSE]

NoCall ==
  [text |-> <<>>, command_lower |-> <<>>, path |-> "no_call", matched |-> <<>>,
   invoked |-> <<>>, raised |-> FALSE, result |-> EmptyResponse,
   spoken |-> <<>>, propagated |-> FALSE]

\* one call of execute_command on registry cmds, the selected effect doing
\* outcome: the record of what the call did
ExecuteCommand(cmds, command_text, outcome) ==
  LET command_lower == Normalize(command_text)
      exact == ExactMatch(cmds, command_lower)
      partial == PartialMatch(cmds, command_lower)
      m == IF exact # 0 THEN exact ELSE partial
      r == IF m # 0 THEN InvokeEffect(outcome) ELSE NotFound
  IN [text |-> command_text,
      command_lower |-> command_lower,
      path |-> IF exact # 0 THEN "exact"
               ELSE IF partial # 0 THEN "partial" ELSE "none",
      matched |-> IF m # 0 THEN cmds[m].phrase ELSE <<>>,
      invoked |-> IF m # 0 THEN <<cmds[m].effect>> ELSE <<>>,
      raised |-> m # 0 /\ outcome.raised,
      result |-> r.result,
      spoken |-> r.spoken,
      propagated |-> r.propagated]

\* TTSEngine._clean_text: the queue holds the cleaned form of the text
CleanText(text) == [cleaned |-> text]

\* TTSEngine.speak
speak(queue, engine, shutdown_flag, text) ==
  IF ~Truthy(text) \/ engine # "ready" \/ shutdown_flag
  THEN queue
  ELSE Append(queue, CleanText(text))

\* a sink that enqueues whatever it is given
speak_response_unguarded(queue, enabled, engine, shutdown_flag, text) ==
  Append(queue, CleanText(text))

\* CommandHandler.speak_response
speak_response(queue, enabled, engine, shutdown_flag, text) ==
  IF enabled /\ engine = "ready" /\ Truthy(text)
  THEN speak(queue, engine, shutdown_flag, text)
  ELSE queue

\* the speech queue after speak_response was called on each text in turn
RECURSIVE SpeakAll(_, _, _, _, _)
SpeakAll(queue, enabled, engine, shutdown_flag, texts) ==
  IF texts = <<>> THEN queue
  ELSE SpeakAll(speak_response(queue, enabled, engine, shutdown_flag, Head(texts)),
                enabled, engine, shutdown_flag, Tail(texts))

----------------------------------------------------------------------------
(* The dispatcher's operations. *)

Str_a == <<97>>
Str_ab == <<97, 98>>
Str_sp_a == <<32, 97>>
Str_A == <<65>>
Str_b_sp_a == <<98, 32, 97>>
\* "spasibo"
Str_spasibo == <<1089, 1087, 1072, 1089, 1080, 1073, 1086>>
\* "kotoryy chas"
Str_kotoryy_chas == <<1082, 1086, 1090, 1086, 1088, 1099, 1081, 32, 1095, 1072, 1089>>
\* "kakoy seychas chas"
Str_kakoy_seychas_chas ==
  <<1082, 1072, 1082, 1086, 1081, 32, 1089, 1077, 1081, 1095, 1072, 1089, 32,
    1095, 1072, 1089>>
\* "bla bla bla"
Str_bla_bla_bla == <<1073, 1083, 1072, 32, 1073, 1083, 1072, 32, 1073, 1083, 1072>>
\* "Spasibo " with a capital and a trailing blank
Str_Spasibo_sp == <<1057, 1087, 1072, 1089, 1080, 1073, 1086, 32>>
\* "privet kak dela": two registered phrases in one text
Str_privet_kak_dela ==
  <<1087, 1088, 1080, 1074, 1077, 1090, 32, 1082, 1072, 1082, 32, 1076, 1077,
    1083, 1072>>
\* "otkroy youtube"
Str_otkroy_youtube ==
  <<1086, 1090, 1082, 1088, 1086, 1081, 32, 121, 111, 117, 116, 117, 98, 101>>

\* phrases a caller registers or removes
CustomPhrases == {Str_a, Str_ab, Str_sp_a, Str_A}
RemovePhrases == CustomPhrases \cup {Str_spasibo}

\* texts handed to execute_command
InputTexts ==
  { Str_ab, Str_b_sp_a, Str_sp_a, Str_A,
    Str_spasibo, Str_Spasibo_sp, Str_kotoryy_chas, Str_kakoy_seychas_chas,
    Str_bla_bla_bla, Str_privet_kak_dela, Str_otkroy_youtube }

\* add_custom_command's registry: "self.commands[command.lower()] = function"
AddCustomCommand(cmds, command, function) ==
  DictSet(cmds, Lower(command), function)

\* remove_command's registry: "if command.lower() in self.commands: del ..."
RemoveCommand(cmds, command) ==
  IF KeyIndex(cmds, Lower(command)) # 0
  THEN DictDel(cmds, Lower(command))
  ELSE cmds

add_custom_command(command, function) ==
  /\ \/ KeyIndex(commands, Lower(command)) # 0
     \/ Len(commands) < Len(_initialize_commands) + MaxCustom
  /\ commands' = AddCustomCommand(commands, command, function)
  /\ last_call' = NoCall
  /\ UNCHANGED <<enable_tts, tts_engine, tts_shutdown_flag, speech_queue>>
  /\ UNCHANGED pipelineVars

remove_command(command) ==
  /\ commands' = RemoveCommand(commands, command)
  /\ last_call' = NoCall
  /\ UNCHANGED <<enable_tts, tts_engine, tts_shutdown_flag, speech_queue>>
  /\ UNCHANGED pipelineVars

execute_command(command_text) ==
  /\ Len(speech_queue) < MaxSpeechQueue
  /\ \E outcome \in MatchOutcomes(commands, command_text) :
       LET call == ExecuteCommand(commands, command_text, outcome)
       IN /\ last_call' = call
          /\ speech_queue' = SpeakAll(speech_queue, enable_tts, tts_engine,
                                      tts_shutdown_flag, call.spoken)
  /\ UNCHANGED <<commands, enable_tts, tts_engine, tts_shutdown_flag>>
  /\ UNCHANGED pipelineVars

\* TTSEngine._process_queue: the worker takes the next text and speaks it
tts_process_queue ==
  /\ ~tts_shutdown_flag
  /\ speech_queue # <<>>
  /\ speech_queue' = Tail(speech_queue)
  /\ UNCHANGED <<commands, enable_tts, tts_engine, tts_shutdown_flag, last_call>>
  /\ UNCHANGED pipelineVars

\* TTSEngine.shutdown: the flag is set, the queue emptied, the engine dropped
tts_shutdown ==
  /\ tts_engine = "ready"
  /\ tts_shutdown_flag' = TRUE
  /\ speech_queue' = <<>>
  /\ UNCHANGED <<commands, enable_tts, tts_engine, last_call>>
  /\ UNCHANGED pipelineVars

\* CommandHandler.__init__: TTS on, TTS on but failed to start, or TTS off
InitDispatch ==
  /\ commands = _initialize_commands
  /\ enable_tts \in BOOLEAN
  /\ tts_engine \in (IF enable_tts THEN {"ready", "none"} ELSE {"none"})
  /\ tts_shutdown_flag = FALSE
  /\ speech_queue = <<>>
  /\ last_call = NoCall

----------------------------------------------------------------------------
(* The voice-activation pipeline (voice_activation.py).                    *)
(* Amplitudes are in thousandths (0.01 is 10); times are in seconds.       *)

NoTime == 0 - 1

\* silence_threshold, the constructor's default 0.01
silence_threshold == 10
\* the fallback gate's fixed threshold 0.05
FallbackThreshold == 50
\* the ceiling of a recording episode, in seconds
MaxRecordingSeconds == 30
\* silence_duration as the model constructs the object: one clock step
silence_duration == TickStep

\* what the capture callback can deliver: silence, speech, the wake word
FrameKinds ==
  { [vol |-> 0, kw |-> FALSE], [vol |-> 100, kw |-> FALSE],
    [vol |-> 100, kw |-> TRUE] }

\* noise floors a calibration can measure
NoiseLevels == {20}

\* what a calibration can capture: nothing, or samples at a noise floor
NoiseSamples == {<<>>} \cup {<<level>> : level \in NoiseLevels}

\* the same with a quiet room added: samples whose mean amplitude is 5
NoiseSamplesWide == NoiseSamples \cup {<<0 - 10, 0>>}

\* frames of four loudnesses for a gate without Porcupine
NoiseFrameKinds == {[vol |-> v, kw |-> FALSE] : v \in {0, 30, 60, 100}}

Abs(x) == IF x < 0 THEN 0 - x ELSE x

RECURSIVE SumAbs(_)
SumAbs(samples) ==
  IF samples = <<>> THEN 0 ELSE Abs(Head(samples)) + SumAbs(Tail(samples))

\* "np.mean(np.abs(noise_data))"
MeanAbs(samples) == SumAbs(samples) \div Len(samples)

\* a calibration that marks the profile adapted whatever it captured
adapt_to_noise_always_adapts(noise_samples, profile, adapted) ==
  [noise_profile |-> IF noise_samples = <<>> THEN 0 ELSE MeanAbs(noise_samples),
   noise_adapted |-> TRUE]

\* adapt_to_noise: the profile and the flag after a calibration that captured
\* noise_samples
adapt_to_noise(noise_samples, profile, adapted) ==
  IF noise_samples # <<>>
  THEN [noise_profile |-> MeanAbs(noise_samples), noise_adapted |-> TRUE]
  ELSE [noise_profile |-> profile, noise_adapted |-> adapted]

\* texts the speech-to-text engine can return: "spasibo",
\* "kakoy seychas chas", "bla bla bla"
RecognizedTexts == {Str_spasibo, Str_kakoy_seychas_chas, Str_bla_bla_bla}

\* a threshold taken from the profile whatever the flag says
GateThresholdFromProfile(adapted, profile) == profile * 4

\* "noise_threshold = self.noise_profile * 4 if self.noise_adapted else 0.05"
GateThreshold(adapted, profile) ==
  IF adapted THEN profile * 4 ELSE FallbackThreshold

\* detect_activation_word_fallback: RMS against the noise-adapted threshold
detect_activation_word_fallback(frame, adapted, profile) ==
  frame.vol > GateThreshold(adapted, profile)

\* a detector whose error counts as a detection
detect_activation_word_error_detects(frame, detector, raises, adapted, profile) ==
  IF detector = "none"
  THEN detect_activation_word_fallback(frame, adapted, profile)
  ELSE raises \/ frame.kw

\* detect_activation_word: Porcupine's verdict, False when it raises, and
\* the fallback when there is no Porcupine
detect_activation_word(frame, detector, detector_raises, adapted, profile) ==
  IF detector = "none"
  THEN detect_activation_word_fallback(frame, adapted, profile)
  ELSE ~detector_raises /\ frame.kw

Max(a, b) == IF a >= b THEN a ELSE b

\* twice the noise profile alone after a calibration
SilenceThresholdFromProfile(adapted, profile) ==
  IF adapted THEN profile * 2 ELSE silence_threshold

\* is_silence's threshold: silence_threshold, raised to twice the noise
\* profile after a calibration
SilenceThreshold(adapted, profile) ==
  IF adapted THEN Max(profile * 2, silence_threshold) ELSE silence_threshold

\* "blocksize=... 1024": the frames of a block the stream delivers
BlockSize == 1024

\* numpy's nan, the mean of an empty array; an amplitude is never negative
NaN == 0 - 1

\* "np.sqrt(np.mean(audio_chunk ** 2))"
Rms(chunk) == IF chunk.len = 0 THEN NaN ELSE chunk.vol

\* "<" on floats: false when a side is nan
FloatLess(a, b) == a # NaN /\ b # NaN /\ a < b

\* is_silence: a zero-length chunk is silent; otherwise RMS strictly below
\* the threshold
is_silence(frame, adapted, profile) ==
  IF frame.len = 0
  THEN TRUE
  ELSE FloatLess(Rms(frame), SilenceThreshold(adapted, profile))

\* a strict comparison in place of ">="
SilenceElapsedStrict(t, start) == t - start > silence_duration

\* a timer that a non-silent frame leaves running
SilenceTimerKept(silent, timer, t) ==
  IF silent /\ timer = NoTime THEN t ELSE timer

\* the silence timer after a frame: unset by a non-silent frame, started by
\* the first silent one
SilenceTimerAfter(silent, timer, t) ==
  IF ~silent THEN NoTime
  ELSE IF timer = NoTime THEN t
  ELSE timer

\* "time.time() - silence_start_time >= self.silence_duration"
SilenceElapsed(t, start) == t - start >= silence_duration

\* "time.time() - recording_start_time > 30"
RecordingTimedOut(t, start) == t - start > MaxRecordingSeconds

RecordingPcs == {"rec_loop", "rec_get", "rec_ret"}
ProcessPcs == {"process", "dispatch", "telemetry", "reset"}

----------------------------------------------------------------------------
(* The pipeline's steps. *)

\* a start_listening that calibrates at every call
AlwaysCalibrates(adapted) == TRUE

\* "if not self.noise_adapted: self.adapt_to_noise()"
NeedsCalibration(adapted) == ~adapted

\* start_listening up to the "try": the guard, setup_audio_device and
\* adapt_to_noise
StartListening(noise_samples) ==
  /\ pc = "stopped"
  /\ \/ /\ is_listening
        /\ UNCHANGED <<pc, is_listening, noiseVars, stop_called, calibration>>
     \/ /\ ~is_listening
        /\ is_listening' = TRUE
        /\ stop_called' = FALSE
        /\ \/ /\ pc' = "stopped"
              /\ UNCHANGED <<noiseVars, calibration>>
           \/ /\ pc' = "open_stream"
              /\ IF NeedsCalibration(noise_adapted)
                 THEN LET a == adapt_to_noise(noise_samples, noise_profile,
                                              noise_adapted)
                      IN /\ noise_profile' = a.noise_profile
                         /\ noise_adapted' = a.noise_adapted
                         /\ calibration' = [ran |-> TRUE,
                                            samples |-> noise_samples,
                                            skipped |-> FALSE]
                 ELSE /\ UNCHANGED noiseVars
                      /\ calibration' = [calibration EXCEPT !.skipped = TRUE]
  /\ UNCHANGED <<is_recording, audio_queue, captured, stream_open, configVars,
                 activation_count, recVars, now, procVars, cancelled,
                 end_reason, episodes_started, silent_run, paced,
                 last_get_time, over_cap>>
  /\ UNCHANGED dispatchVars
  /\ UNCHANGED <<recognize_calls, reset_calls, stt_error, detector_error>>
  /\ UNCHANGED auxVars

start_listening == \E noise_samples \in NoiseSamples : StartListening(noise_samples)

\* "with sd.InputStream(...)": the stream opens, or raising it goes to the
\* handler and the finally
open_stream ==
  /\ pc = "open_stream"
  /\ \/ /\ stream_open' = TRUE
        /\ pc' = "gate"
     \/ /\ pc' = "finally"
        /\ UNCHANGED stream_open
  /\ UNCHANGED <<is_listening, is_recording, audio_queue, captured, configVars,
                 noiseVars, activation_count, recVars, now, procVars, histVars>>
  /\ UNCHANGED dispatchVars
  /\ UNCHANGED obsVars
  /\ UNCHANGED auxVars

\* "self.audio_queue = queue.Queue()": maxsize is 0, which queue.Queue reads
\* as no limit
audio_queue_maxsize == 0

\* queue.Queue.full: never, for a queue without a limit
QueueFull(q) == audio_queue_maxsize > 0 /\ Len(q) >= audio_queue_maxsize

\* audio_callback: the device delivers a frame; "put" would block only on a
\* full queue, and MaxQueue bounds the exploration, not the program
audio_callback(kind) ==
  /\ stream_open
  /\ captured < MaxFrames
  /\ ~QueueFull(audio_queue)
  /\ Len(audio_queue) < MaxQueue
  /\ captured' = captured + 1
  /\ audio_queue' =
       Append(audio_queue, [id |-> captured + 1, len |-> BlockSize,
                            vol |-> kind.vol, kw |-> kind.kw])
  /\ UNCHANGED <<pc, is_listening, is_recording, stream_open, configVars,
                 noiseVars, activation_count, recVars, now, procVars, histVars>>
  /\ UNCHANGED dispatchVars
  /\ UNCHANGED obsVars
  /\ UNCHANGED auxVars

\* the clock advances; only record_until_silence reads it, so the time
\* that passes outside an episode is left out
Tick ==
  /\ pc \in {"rec_loop", "rec_get"}
  /\ now + TickStep <= MaxTime
  /\ now' = now + TickStep
  /\ UNCHANGED <<pc, is_listening, is_recording, audio_queue, captured,
                 stream_open, configVars, noiseVars, activation_count, recVars,
                 procVars, histVars>>
  /\ UNCHANGED dispatchVars
  /\ UNCHANGED obsVars
  /\ UNCHANGED auxVars

\* "while self.is_listening"
gate_check ==
  /\ pc = "gate"
  /\ pc' = IF is_listening THEN "gate_get" ELSE "finally"
  /\ detector_error' = FALSE
  /\ UNCHANGED <<is_listening, is_recording, audio_queue, captured, stream_open,
                 configVars, noiseVars, activation_count, recVars, now,
                 procVars, histVars>>
  /\ UNCHANGED dispatchVars
  /\ UNCHANGED <<recognize_calls, reset_calls, stt_error, calibration>>
  /\ UNCHANGED auxVars

\* "audio_chunk = self.audio_queue.get(timeout=0.5)" and the gate's verdict
gate_get ==
  /\ pc = "gate_get"
  /\ audio_queue # <<>>
  /\ audio_queue' = Tail(audio_queue)
  /\ \E detector_raises \in (IF porcupine = "ready" THEN BOOLEAN ELSE {FALSE}) :
       /\ pc' = IF detect_activation_word(Head(audio_queue), porcupine,
                                          detector_raises, noise_adapted,
                                          noise_profile)
                THEN "activate"
                ELSE "gate"
       /\ detector_error' = detector_raises
  /\ UNCHANGED <<is_listening, is_recording, captured, stream_open, configVars,
                 noiseVars, activation_count, recVars, now, procVars, histVars>>
  /\ UNCHANGED dispatchVars
  /\ UNCHANGED <<recognize_calls, reset_calls, stt_error, calibration>>
  /\ UNCHANGED auxVars

\* "except queue.Empty: continue" of the gating loop
gate_empty ==
  /\ pc = "gate_get"
  /\ audio_queue = <<>>
  /\ pc' = "gate"
  /\ UNCHANGED <<is_listening, is_recording, audio_queue, captured, stream_open,
                 configVars, noiseVars, activation_count, recVars, now,
                 procVars, histVars>>
  /\ UNCHANGED dispatchVars
  /\ UNCHANGED obsVars
  /\ UNCHANGED auxVars

\* a count that is left as it was
ActivationCountKept(n) == n

\* "self.activation_count += 1"
ActivationCountAfter(n) == n + 1

\* the wake word was detected: count it, set is_recording and enter
\* record_until_silence
activate ==
  /\ pc = "activate"
  /\ activation_count' = ActivationCountAfter(activation_count)
  /\ is_recording' = TRUE
  /\ recorded_audio' = <<>>
  /\ silence_start_time' = NoTime
  /\ recording_start_time' = now
  /\ pc' = "rec_loop"
  /\ episodes_started' = episodes_started + 1
  /\ cancelled' = stop_called
  /\ end_reason' = "none"
  /\ silent_run' = 0
  /\ paced' = TRUE
  /\ last_get_time' = NoTime
  /\ over_cap' = FALSE
  /\ UNCHANGED <<is_listening, audio_queue, captured, stream_open, configVars,
                 noiseVars, now, procVars, stop_called>>
  /\ UNCHANGED dispatchVars
  /\ UNCHANGED obsVars
  /\ silence_run_start' = NoTime
  /\ episode_base' = captured - Len(audio_queue)
  /\ run_broken' = FALSE
  /\ UNCHANGED methodVars

\* "while self.is_recording"
rec_check ==
  /\ pc = "rec_loop"
  /\ pc' = IF is_recording THEN "rec_get" ELSE "rec_ret"
  /\ end_reason' = IF is_recording THEN end_reason ELSE "stopped"
  /\ UNCHANGED <<is_listening, is_recording, audio_queue, captured, stream_open,
                 configVars, noiseVars, activation_count, recVars, now,
                 procVars, stop_called, cancelled, episodes_started,
                 silent_run, paced, last_get_time, over_cap>>
  /\ UNCHANGED dispatchVars
  /\ UNCHANGED obsVars
  /\ UNCHANGED auxVars

\* a buffer that takes the newest frame first
BufferPrepend(buffer, chunk) == <<chunk.id>> \o buffer

\* "recorded_audio.append(audio_chunk)"
BufferAppend(buffer, chunk) == Append(buffer, chunk.id)

\* one iteration of the recording loop that gets a frame
rec_get ==
  /\ pc = "rec_get"
  /\ audio_queue # <<>>
  /\ LET chunk == Head(audio_queue)
         silent == is_silence(chunk, noise_adapted, noise_profile)
         ended == /\ silent
                  /\ silence_start_time # NoTime
                  /\ SilenceElapsed(now, silence_start_time)
         timed_out == ~ended /\ RecordingTimedOut(now, recording_start_time)
     IN /\ audio_queue' = Tail(audio_queue)
        /\ recorded_audio' = BufferAppend(recorded_audio, chunk)
        /\ silence_start_time' =
             SilenceTimerAfter(silent, silence_start_time, now)
        /\ pc' = IF ended \/ timed_out THEN "rec_ret" ELSE "rec_loop"
        /\ end_reason' = IF ended THEN "silence"
                         ELSE IF timed_out THEN "timeout" ELSE end_reason
        /\ silent_run' = IF silent THEN silent_run + 1 ELSE 0
        /\ paced' = /\ paced
                    /\ last_get_time # NoTime => now - last_get_time = TickStep
        /\ last_get_time' = now
        /\ over_cap' = FALSE
  /\ UNCHANGED <<is_listening, is_recording, captured, stream_open, configVars,
                 noiseVars, activation_count, recording_start_time, now,
                 procVars, stop_called, cancelled, episodes_started>>
  /\ UNCHANGED dispatchVars
  /\ UNCHANGED obsVars
  /\ LET silent == is_silence(Head(audio_queue), noise_adapted, noise_profile)
     IN /\ silence_run_start' = IF ~silent THEN NoTime
                                ELSE IF silent_run = 0 THEN now
                                ELSE silence_run_start
        /\ run_broken' = (run_broken \/ (~silent /\ silent_run > 0))
  /\ UNCHANGED <<episode_base, methodVars>>

\* "except queue.Empty: continue" of the recording loop
rec_empty ==
  /\ pc = "rec_get"
  /\ audio_queue = <<>>
  /\ pc' = "rec_loop"
  /\ over_cap' = RecordingTimedOut(now, recording_start_time)
  /\ UNCHANGED <<is_listening, is_recording, audio_queue, captured, stream_open,
                 configVars, noiseVars, activation_count, recVars, now,
                 procVars, stop_called, cancelled, end_reason,
                 episodes_started, silent_run, paced, last_get_time>>
  /\ UNCHANGED dispatchVars
  /\ UNCHANGED obsVars
  /\ UNCHANGED auxVars

\* a test that lets every buffer through
AnyBuffer(buffer) == TRUE

\* "if command_audio.size > 0:"
NonEmptyBuffer(buffer) == buffer # <<>>

\* record_until_silence returns; "self.is_recording = False"; an empty
\* buffer goes back to gating
rec_return ==
  /\ pc = "rec_ret"
  /\ is_recording' = FALSE
  /\ pc' = IF NonEmptyBuffer(recorded_audio) THEN "process" ELSE "gate"
  /\ recorded_audio' = recorded_audio
  /\ silence_start_time' = NoTime
  /\ recording_start_time' = NoTime
  /\ end_reason' = "none"
  /\ silent_run' = 0
  /\ paced' = TRUE
  /\ last_get_time' = NoTime
  /\ over_cap' = FALSE
  /\ UNCHANGED <<is_listening, audio_queue, captured, stream_open, configVars,
                 noiseVars, activation_count, now, procVars, stop_called,
                 cancelled, episodes_started>>
  /\ UNCHANGED dispatchVars
  /\ UNCHANGED obsVars
  /\ silence_run_start' = NoTime
  /\ episode_base' = IF NonEmptyBuffer(recorded_audio) THEN episode_base ELSE 0
  /\ run_broken' = FALSE
  /\ UNCHANGED methodVars

\* recognize_audio with no try/except around the engine
recognize_audio_uncaught(engine_text, engine_raises) ==
  [text |-> IF engine_raises THEN <<>> ELSE Strip(engine_text),
   propagated |-> engine_raises]

\* SpeechRecognizer.recognize_audio: the engine's text, stripped, and ""
\* when the engine raises; nothing leaves the method
recognize_audio(engine_text, engine_raises) ==
  [text |-> IF engine_raises THEN <<>> ELSE Strip(engine_text),
   propagated |-> FALSE]

\* a test that lets every text through
TextAlwaysRecognized(text) == TRUE

\* "if recognized_text:"
TextRecognized(text) == text # <<>>

\* process_command up to the dispatch: recognize_audio is called when there
\* is a recognizer
process_recognize ==
  /\ pc = "process"
  /\ IF speech_recognizer = "none"
     THEN /\ pc' = "gate"
          /\ recorded_audio' = <<>>
          /\ UNCHANGED procVars
          /\ UNCHANGED <<recognize_calls, stt_error>>
     ELSE \E engine_text \in RecognizedTexts \cup {<<>>},
             engine_raises \in BOOLEAN :
            LET r == recognize_audio(engine_text, engine_raises)
            IN /\ stt_dirty' = TRUE
               /\ recognize_calls' = recognize_calls + 1
               /\ stt_error' = engine_raises
               /\ recognized_text' = r.text
               /\ exc_pending' = r.propagated
               /\ pc' = IF ~r.propagated /\ TextRecognized(r.text)
                        THEN "dispatch"
                        ELSE "reset"
               /\ UNCHANGED recorded_audio
  /\ UNCHANGED <<is_listening, is_recording, audio_queue, captured, stream_open,
                 configVars, noiseVars, activation_count, silence_start_time,
                 recording_start_time, now, histVars>>
  /\ UNCHANGED dispatchVars
  /\ UNCHANGED <<reset_calls, calibration, detector_error>>
  /\ episode_base' = IF speech_recognizer = "none" THEN 0 ELSE episode_base
  /\ UNCHANGED <<silence_run_start, run_broken, methodVars>>

\* process_command: "response = self.command_handler.execute_command(...)"
process_dispatch ==
  /\ pc = "dispatch"
  /\ Len(speech_queue) < MaxSpeechQueue
  /\ \E outcome \in MatchOutcomes(commands, recognized_text) :
       LET call == ExecuteCommand(commands, recognized_text, outcome)
       IN /\ last_call' = call
          /\ speech_queue' = SpeakAll(speech_queue, enable_tts, tts_engine,
                                      tts_shutdown_flag, call.spoken)
          /\ exc_pending' = call.propagated
          /\ pc' = IF call.propagated THEN "reset" ELSE "telemetry"
  /\ UNCHANGED <<commands, enable_tts, tts_engine, tts_shutdown_flag>>
  /\ UNCHANGED <<is_listening, is_recording, audio_queue, captured, stream_open,
                 configVars, noiseVars, activation_count, recVars, now,
                 recognized_text, stt_dirty, histVars>>
  /\ UNCHANGED obsVars
  /\ UNCHANGED auxVars

\* process_command: the line appended to response_times.log, which can fail
process_telemetry ==
  /\ pc = "telemetry"
  /\ pc' = "reset"
  /\ exc_pending' \in BOOLEAN
  /\ UNCHANGED <<is_listening, is_recording, audio_queue, captured, stream_open,
                 configVars, noiseVars, activation_count, recVars, now,
                 recognized_text, stt_dirty, histVars>>
  /\ UNCHANGED dispatchVars
  /\ UNCHANGED obsVars
  /\ UNCHANGED auxVars

\* a reset that is skipped when an exception is on its way out
ResetsOnlyOnSuccess(recognizer, exc) == recognizer = "ready" /\ ~exc

\* "finally: if self.speech_recognizer: self.speech_recognizer.reset_recognizer()"
FinallyResets(recognizer, exc) == recognizer = "ready"

\* process_command's finally: reset_recognizer; a pending exception then
\* reaches start_listening's handler
process_reset ==
  /\ pc = "reset"
  /\ stt_dirty' = (stt_dirty /\ ~FinallyResets(speech_recognizer, exc_pending))
  /\ reset_calls' = IF FinallyResets(speech_recognizer, exc_pending)
                    THEN reset_calls + 1
                    ELSE reset_calls
  /\ stt_error' = FALSE
  /\ pc' = IF exc_pending THEN "finally" ELSE "gate"
  /\ exc_pending' = FALSE
  /\ recognized_text' = <<>>
  /\ recorded_audio' = <<>>
  /\ UNCHANGED <<is_listening, is_recording, audio_queue, captured, stream_open,
                 configVars, noiseVars, activation_count, silence_start_time,
                 recording_start_time, now, histVars>>
  /\ UNCHANGED dispatchVars
  /\ UNCHANGED <<recognize_calls, calibration, detector_error>>
  /\ episode_base' = 0
  /\ UNCHANGED <<silence_run_start, run_broken, methodVars>>

\* start_listening's finally: the stream is closed, "self.is_listening = False"
listen_finally ==
  /\ pc = "finally"
  /\ is_listening' = FALSE
  /\ stream_open' = FALSE
  /\ pc' = "stopped"
  /\ UNCHANGED <<is_recording, audio_queue, captured, configVars, noiseVars,
                 activation_count, recVars, now, procVars, histVars>>
  /\ UNCHANGED dispatchVars
  /\ UNCHANGED obsVars
  /\ UNCHANGED auxVars

\* stop_listening, called from another thread
stop_listening ==
  /\ is_listening' = FALSE
  /\ is_recording' = FALSE
  /\ IF tts_engine = "ready"
     THEN /\ tts_shutdown_flag' = TRUE
          /\ speech_queue' = <<>>
     ELSE UNCHANGED <<tts_shutdown_flag, speech_queue>>
  /\ stop_called' = TRUE
  /\ cancelled' = (cancelled \/ pc \in {"rec_loop", "rec_get"})
  /\ UNCHANGED <<commands, enable_tts, tts_engine, last_call>>
  /\ UNCHANGED <<pc, audio_queue, captured, stream_open, configVars, noiseVars,
                 activation_count, recVars, now, procVars, end_reason,
                 episodes_started, silent_run, paced, last_get_time, over_cap>>
  /\ UNCHANGED obsVars
  /\ UNCHANGED auxVars

\* is_silence has not been called directly
NoProbe == [called |-> FALSE]

\* chunks handed to is_silence directly: zero-length, and blocks of RMS 0..45
ProbeChunks ==
  {[len |-> 0, vol |-> 0]} \cup {[len |-> BlockSize, vol |-> v] : v \in 0..45}

\* what a calibration called directly can capture: no samples, or samples of
\* mean amplitude 0, 2, 5 and 20
ProbeNoiseSamples == NoiseSamplesWide \cup {<<0>>, <<2, 0 - 2>>}

\* adapt_to_noise, called on the object when no session is running
adapt_to_noise_call(noise_samples) ==
  /\ pc = "stopped"
  /\ LET a == adapt_to_noise(noise_samples, noise_profile, noise_adapted)
     IN /\ noise_profile' = a.noise_profile
        /\ noise_adapted' = a.noise_adapted
  /\ calibration' = [ran |-> TRUE, samples |-> noise_samples, skipped |-> FALSE]
  /\ UNCHANGED <<pc, is_listening, is_recording, audio_queue, captured,
                 stream_open, configVars, activation_count, recVars, now,
                 procVars, histVars, episodeVars, methodVars>>
  /\ UNCHANGED <<recognize_calls, reset_calls, stt_error, detector_error>>
  /\ UNCHANGED dispatchVars

\* is_silence, called on the object with a chunk
is_silence_call(chunk) ==
  /\ probe' = [called |-> TRUE, chunk |-> chunk, adapted |-> noise_adapted,
               profile |-> noise_profile,
               result |-> is_silence(chunk, noise_adapted, noise_profile)]
  /\ UNCHANGED <<sessionVars, cleanup_result, ttsVars, recorderVars>>
  /\ UNCHANGED dispatchVars

\* how cleanup ends when "self.porcupine.delete()" is called bare: what delete
\* raises leaves the method
cleanup_outcome(detector, delete_raises) ==
  IF detector # "none" /\ delete_raises THEN "raised" ELSE "returned"

\* cleanup: Porcupine is released when there is one
cleanup ==
  /\ \E delete_raises \in (IF porcupine = "ready" THEN BOOLEAN ELSE {FALSE}) :
       cleanup_result' = cleanup_outcome(porcupine, delete_raises)
  /\ UNCHANGED <<sessionVars, probe, ttsVars, recorderVars>>
  /\ UNCHANGED dispatchVars

----------------------------------------------------------------------------
(* The manual recorder (main.py), statement by statement: the command loop *)
(* of main, the capture callback and the thread of process_audio.          *)

\* the recorder's callback enqueues at most this many frames
MaxEnqueued == 3

\* recorded_audio while it is None
NoAudio == [none |-> TRUE, data |-> <<>>]

\* "bytes(audio_data)": a copy of the buffer as it is at the call
Bytes(buffer) == [none |-> FALSE, data |-> buffer]

\* what the recorder does not touch
outsideRecorder == <<dispatchVars, sessionVars, cleanup_result, probe, ttsVars>>

\* the module's globals, the drain thread started and the stream started
InitGlobals ==
  /\ main_is_recording = FALSE
  /\ main_audio_queue = <<>>
  /\ audio_data = <<>>
  /\ main_recorded_audio = NoAudio
  /\ main_pc = "input"
  /\ callback_pc = "check"
  /\ drain_pc = "empty"
  /\ drain_data = 0
  /\ main_captured = 0
  /\ recognized_audio = <<>>
  /\ enqueued = <<>>
  /\ window_open = FALSE

\* callback: "if is_recording", on a frame the device delivers
callback_check ==
  /\ main_pc # "exited"
  /\ callback_pc = "check"
  /\ main_captured < MaxEnqueued
  /\ main_is_recording
  /\ callback_pc' = "put"
  /\ UNCHANGED <<main_is_recording, main_audio_queue, audio_data,
                 main_recorded_audio, main_pc, drain_pc, drain_data,
                 main_captured, recognized_audio, enqueued, window_open>>
  /\ UNCHANGED outsideRecorder

\* callback: "audio_queue.put(bytes(input_data))"
callback_put ==
  /\ main_pc # "exited"
  /\ callback_pc = "put"
  /\ main_audio_queue' = Append(main_audio_queue, main_captured + 1)
  /\ main_captured' = main_captured + 1
  /\ enqueued' = IF window_open THEN Append(enqueued, main_captured + 1)
                                ELSE enqueued
  /\ callback_pc' = "check"
  /\ UNCHANGED <<main_is_recording, audio_data, main_recorded_audio, main_pc,
                 drain_pc, drain_data, recognized_audio, window_open>>
  /\ UNCHANGED outsideRecorder

\* process_audio: "if not audio_queue.empty()", with a frame in the queue
drain_empty ==
  /\ main_pc # "exited"
  /\ drain_pc = "empty"
  /\ main_audio_queue # <<>>
  /\ drain_pc' = "get"
  /\ UNCHANGED <<main_is_recording, main_audio_queue, audio_data,
                 main_recorded_audio, main_pc, callback_pc, drain_data,
                 main_captured, recognized_audio, enqueued, window_open>>
  /\ UNCHANGED outsideRecorder

\* process_audio: "data = audio_queue.get_nowait()"
drain_get ==
  /\ main_pc # "exited"
  /\ drain_pc = "get"
  /\ drain_data' = Head(main_audio_queue)
  /\ main_audio_queue' = Tail(main_audio_queue)
  /\ drain_pc' = "check"
  /\ UNCHANGED <<main_is_recording, audio_data, main_recorded_audio, main_pc,
                 callback_pc, main_captured, recognized_audio, enqueued,
                 window_open>>
  /\ UNCHANGED outsideRecorder

\* process_audio: "if is_recording"
drain_check ==
  /\ main_pc # "exited"
  /\ drain_pc = "check"
  /\ drain_pc' = IF main_is_recording THEN "extend" ELSE "empty"
  /\ drain_data' = IF main_is_recording THEN drain_data ELSE 0
  /\ UNCHANGED <<main_is_recording, main_audio_queue, audio_data,
                 main_recorded_audio, main_pc, callback_pc, main_captured,
                 recognized_audio, enqueued, window_open>>
  /\ UNCHANGED outsideRecorder

\* process_audio: "audio_data.extend(data)", on the buffer the global names
\* at this moment
drain_extend ==
  /\ main_pc # "exited"
  /\ drain_pc = "extend"
  /\ audio_data' = Append(audio_data, drain_data)
  /\ drain_data' = 0
  /\ drain_pc' = "empty"
  /\ UNCHANGED <<main_is_recording, main_audio_queue, main_recorded_audio,
                 main_pc, callback_pc, main_captured, recognized_audio,
                 enqueued, window_open>>
  /\ UNCHANGED outsideRecorder

\* main, command "1": "is_recording = True"
cmd1_flag ==
  /\ main_pc = "input"
  /\ main_is_recording' = TRUE
  /\ main_pc' = "cmd1_buffer"
  /\ enqueued' = <<>>
  /\ window_open' = TRUE
  /\ UNCHANGED <<main_audio_queue, audio_data, main_recorded_audio,
                 callback_pc, drain_pc, drain_data, main_captured,
                 recognized_audio>>
  /\ UNCHANGED outsideRecorder

\* main, command "1": "audio_data = bytearray()"
cmd1_buffer ==
  /\ main_pc = "cmd1_buffer"
  /\ audio_data' = <<>>
  /\ main_pc' = "cmd1_clear"
  /\ UNCHANGED <<main_is_recording, main_audio_queue, main_recorded_audio,
                 callback_pc, drain_pc, drain_data, main_captured,
                 recognized_audio, enqueued, window_open>>
  /\ UNCHANGED outsideRecorder

\* main, command "1": "recorded_audio = None"
cmd1_clear ==
  /\ main_pc = "cmd1_clear"
  /\ main_recorded_audio' = NoAudio
  /\ main_pc' = "input"
  /\ UNCHANGED <<main_is_recording, main_audio_queue, audio_data,
                 callback_pc, drain_pc, drain_data, main_captured,
                 recognized_audio, enqueued, window_open>>
  /\ UNCHANGED outsideRecorder

\* main, command "2" while recording: "is_recording = False"
cmd2_flag ==
  /\ main_pc = "input"
  /\ main_is_recording
  /\ main_is_recording' = FALSE
  /\ main_pc' = "cmd2_snapshot"
  /\ window_open' = FALSE
  /\ UNCHANGED <<main_audio_queue, audio_data, main_recorded_audio,
                 callback_pc, drain_pc, drain_data, main_captured,
                 recognized_audio, enqueued>>
  /\ UNCHANGED outsideRecorder

\* main, command "2": "recorded_audio = bytes(audio_data)"
cmd2_snapshot ==
  /\ main_pc = "cmd2_snapshot"
  /\ main_recorded_audio' = Bytes(audio_data)
  /\ main_pc' = "input"
  /\ UNCHANGED <<main_is_recording, main_audio_queue, audio_data,
                 callback_pc, drain_pc, drain_data, main_captured,
                 recognized_audio, enqueued, window_open>>
  /\ UNCHANGED outsideRecorder

\* main, command "3" with a non-empty recorded_audio: the recognizer is given
\* the snapshot
cmd3 ==
  /\ main_pc = "input"
  /\ ~main_recorded_audio.none
  /\ main_recorded_audio.data # <<>>
  /\ recognized_audio' = main_recorded_audio.data
  /\ UNCHANGED <<main_is_recording, main_audio_queue, audio_data,
                 main_recorded_audio, main_pc, callback_pc, drain_pc,
                 drain_data, main_captured, enqueued, window_open>>
  /\ UNCHANGED outsideRecorder

\* main, command "0": the loop is left, the stream is stopped and closed and
\* the process ends with its daemon thread
cmd0 ==
  /\ main_pc = "input"
  /\ main_pc' = "exited"
  /\ UNCHANGED <<main_is_recording, main_audio_queue, audio_data,
                 main_recorded_audio, callback_pc, drain_pc, drain_data,
                 main_captured, recognized_audio, enqueued, window_open>>
  /\ UNCHANGED outsideRecorder

----------------------------------------------------------------------------
(* Specifications. *)

InitPipeline ==
  /\ pc = "stopped"
  /\ is_listening = FALSE
  /\ is_recording = FALSE
  /\ audio_queue = <<>>
  /\ captured = 0
  /\ stream_open = FALSE
  /\ noise_profile = 0
  /\ noise_adapted = FALSE
  /\ activation_count = 0
  /\ recorded_audio = <<>>
  /\ silence_start_time = NoTime
  /\ recording_start_time = NoTime
  /\ now = 0
  /\ recognized_text = <<>>
  /\ exc_pending = FALSE
  /\ stt_dirty = FALSE
  /\ stop_called = FALSE
  /\ cancelled = FALSE
  /\ end_reason = "none"
  /\ episodes_started = 0
  /\ silent_run = 0
  /\ paced = TRUE
  /\ last_get_time = NoTime
  /\ over_cap = FALSE
  /\ recognize_calls = 0
  /\ reset_calls = 0
  /\ stt_error = FALSE
  /\ calibration = [ran |-> FALSE, samples |-> <<>>, skipped |-> FALSE]
  /\ detector_error = FALSE
  /\ silence_run_start = NoTime
  /\ episode_base = 0
  /\ run_broken = FALSE
  /\ cleanup_result = "none"
  /\ probe = NoProbe
  /\ tts_obj = tts_engine
  /\ speak_pending = <<>>
  /\ worker_pc = "loop"
  /\ shutdown_pc = "idle"
  /\ late_speech = FALSE
  /\ InitGlobals

\* VoiceActivation.__init__: Porcupine and Vosk may each fail to load, and
\* the command handler is built with TTS enabled
Init ==
  /\ InitDispatch
  /\ enable_tts = TRUE
  /\ InitPipeline
  /\ porcupine \in {"ready", "none"}
  /\ speech_recognizer \in {"ready", "none"}

Next ==
  \/ start_listening
  \/ open_stream
  \/ \E kind \in FrameKinds : audio_callback(kind)
  \/ Tick
  \/ gate_check
  \/ gate_get
  \/ gate_empty
  \/ activate
  \/ rec_check
  \/ rec_get
  \/ rec_empty
  \/ rec_return
  \/ process_recognize
  \/ process_dispatch
  \/ process_telemetry
  \/ process_reset
  \/ listen_finally
  \/ stop_listening
  \/ tts_process_queue

Spec == Init /\ [][Next]_vars

\* a VoiceActivation without Porcupine and without Vosk, in rooms of several
\* noise floors and with frames of several loudnesses
InitNoise ==
  /\ InitDispatch
  /\ enable_tts = TRUE
  /\ tts_engine = "none"
  /\ InitPipeline
  /\ porcupine = "none"
  /\ speech_recognizer = "none"

NextNoise ==
  \/ \E noise_samples \in NoiseSamplesWide : StartListening(noise_samples)
  \/ open_stream
  \/ \E kind \in NoiseFrameKinds : audio_callback(kind)
  \/ Tick
  \/ gate_check
  \/ gate_get
  \/ gate_empty
  \/ activate
  \/ rec_check
  \/ rec_get
  \/ rec_empty
  \/ rec_return
  \/ process_recognize
  \/ listen_finally
  \/ stop_listening

SpecNoise == InitNoise /\ [][NextNoise]_vars

----------------------------------------------------------------------------
(* TTSEngine's threads, statement by statement (tts_engine.py): a caller   *)
(* of speak, the worker thread of _process_queue and a caller of shutdown. *)

\* texts handed to TTSEngine.speak
SpeakTexts == {EmptyResponse, GenericError, NotFoundResponse}

\* speak: "if not text or self.engine is None or self._shutdown_flag: return"
speak_check(text) ==
  /\ speak_pending = <<>>
  /\ speak_pending' = IF ~Truthy(text) \/ tts_obj = "none" \/ tts_shutdown_flag
                       THEN <<>>
                       ELSE <<text>>
  /\ UNCHANGED <<tts_obj, worker_pc, shutdown_pc, late_speech>>
  /\ UNCHANGED <<sessionVars, cleanup_result, probe, recorderVars>>
  /\ UNCHANGED dispatchVars

\* speak: "self.speech_queue.put(cleaned_text)"
speak_put ==
  /\ speak_pending # <<>>
  /\ Len(speech_queue) < MaxSpeechQueue
  /\ speech_queue' = Append(speech_queue, CleanText(speak_pending[1]))
  /\ speak_pending' = <<>>
  /\ UNCHANGED <<tts_obj, worker_pc, shutdown_pc, late_speech>>
  /\ UNCHANGED <<sessionVars, cleanup_result, probe, recorderVars>>
  /\ UNCHANGED <<commands, enable_tts, tts_engine, tts_shutdown_flag, last_call>>

\* _process_queue: "while not self._shutdown_flag"
worker_loop ==
  /\ worker_pc = "loop"
  /\ worker_pc' = IF tts_shutdown_flag THEN "exited" ELSE "get"
  /\ UNCHANGED <<tts_obj, speak_pending, shutdown_pc, late_speech>>
  /\ UNCHANGED <<sessionVars, cleanup_result, probe, recorderVars>>
  /\ UNCHANGED dispatchVars

\* _process_queue: "text = self.speech_queue.get(timeout=0.5)", or
\* "except queue.Empty: continue"
worker_get ==
  /\ worker_pc = "get"
  /\ IF speech_queue = <<>>
     THEN /\ worker_pc' = "loop"
          /\ UNCHANGED speech_queue
     ELSE /\ worker_pc' = "check"
          /\ speech_queue' = Tail(speech_queue)
  /\ UNCHANGED <<tts_obj, speak_pending, shutdown_pc, late_speech>>
  /\ UNCHANGED <<sessionVars, cleanup_result, probe, recorderVars>>
  /\ UNCHANGED <<commands, enable_tts, tts_engine, tts_shutdown_flag, last_call>>

\* _process_queue: "if text and not self._shutdown_flag"
worker_check ==
  /\ worker_pc = "check"
  /\ worker_pc' = IF tts_shutdown_flag THEN "loop" ELSE "say"
  /\ UNCHANGED <<tts_obj, speak_pending, shutdown_pc, late_speech>>
  /\ UNCHANGED <<sessionVars, cleanup_result, probe, recorderVars>>
  /\ UNCHANGED dispatchVars

\* _process_queue: "self.engine.startLoop(False); self.engine.say(text)";
\* with the engine gone the AttributeError is caught and nothing is spoken
worker_say ==
  /\ worker_pc = "say"
  /\ worker_pc' = "loop"
  /\ late_speech' = (late_speech \/ (tts_obj = "ready" /\ shutdown_pc = "returned"))
  /\ UNCHANGED <<tts_obj, speak_pending, shutdown_pc>>
  /\ UNCHANGED <<sessionVars, cleanup_result, probe, recorderVars>>
  /\ UNCHANGED dispatchVars

\* shutdown: "self._shutdown_flag = True; self.stop()"
shutdown_begin ==
  /\ shutdown_pc = "idle"
  /\ tts_shutdown_flag' = TRUE
  /\ shutdown_pc' = "drain"
  /\ UNCHANGED <<tts_obj, speak_pending, worker_pc, late_speech>>
  /\ UNCHANGED <<sessionVars, cleanup_result, probe, recorderVars>>
  /\ UNCHANGED <<commands, enable_tts, tts_engine, speech_queue, last_call>>

\* shutdown: "while not self.speech_queue.empty(): ...get_nowait()"
shutdown_drain ==
  /\ shutdown_pc = "drain"
  /\ IF speech_queue = <<>>
     THEN /\ shutdown_pc' = "del"
          /\ UNCHANGED speech_queue
     ELSE /\ speech_queue' = Tail(speech_queue)
          /\ UNCHANGED shutdown_pc
  /\ UNCHANGED <<tts_obj, speak_pending, worker_pc, late_speech>>
  /\ UNCHANGED <<sessionVars, cleanup_result, probe, recorderVars>>
  /\ UNCHANGED <<commands, enable_tts, tts_engine, tts_shutdown_flag, last_call>>

\* shutdown: "del self.engine; self.engine = None", and the return
shutdown_del ==
  /\ shutdown_pc = "del"
  /\ tts_obj' = "none"
  /\ shutdown_pc' = "returned"
  /\ UNCHANGED <<speak_pending, worker_pc, late_speech>>
  /\ UNCHANGED <<sessionVars, cleanup_result, probe, recorderVars>>
  /\ UNCHANGED dispatchVars

\* a TTSEngine with its worker thread, a thread that calls speak and a
\* thread that calls shutdown
InitTTS ==
  /\ InitDispatch
  /\ enable_tts = TRUE
  /\ tts_engine = "ready"
  /\ InitPipeline
  /\ porcupine = "none"
  /\ speech_recognizer = "none"

NextTTS ==
  \/ \E text \in SpeakTexts : speak_check(text)
  \/ speak_put
  \/ worker_loop
  \/ worker_get
  \/ worker_check
  \/ worker_say
  \/ shutdown_begin
  \/ shutdown_drain
  \/ shutdown_del

SpecTTS == InitTTS /\ [][NextTTS]_vars

\* the steps of the thread that runs start_listening
PipelineThread ==
  \/ open_stream
  \/ gate_check
  \/ gate_get
  \/ gate_empty
  \/ activate
  \/ rec_check
  \/ rec_get
  \/ rec_empty
  \/ rec_return
  \/ process_recognize
  \/ listen_finally

\* the same VoiceActivation with a pipeline thread that keeps running and a
\* clock that keeps advancing; the device need not deliver frames and nobody
\* need call stop_listening
FairSpecNoise == SpecNoise /\ WF_vars(PipelineThread) /\ WF_vars(Tick)

\* a VoiceActivation whose methods adapt_to_noise, is_silence and cleanup are
\* called directly, with no session running
InitMethods ==
  /\ InitDispatch
  /\ enable_tts = TRUE
  /\ tts_engine = "none"
  /\ InitPipeline
  /\ porcupine \in {"ready", "none"}
  /\ speech_recognizer = "none"

NextMethods ==
  \/ \E noise_samples \in ProbeNoiseSamples : adapt_to_noise_call(noise_samples)
  \/ \E chunk \in ProbeChunks : is_silence_call(chunk)
  \/ cleanup

SpecMethods == InitMethods /\ [][NextMethods]_vars

\* the manual recorder of main.py on its own: the command loop, the capture
\* callback and the drain thread
InitMain ==
  /\ InitDispatch
  /\ enable_tts = TRUE
  /\ tts_engine = "none"
  /\ InitPipeline
  /\ porcupine = "none"
  /\ speech_recognizer = "none"

NextMain ==
  \/ callback_check
  \/ callback_put
  \/ drain_empty
  \/ drain_get
  \/ drain_check
  \/ drain_extend
  \/ cmd1_flag
  \/ cmd1_buffer
  \/ cmd1_clear
  \/ cmd2_flag
  \/ cmd2_snapshot
  \/ cmd3
  \/ cmd0

SpecMain == InitMain /\ [][NextMain]_vars

\* a CommandHandler on its own, used through its public methods
InitHandler ==
  /\ InitDispatch
  /\ InitPipeline
  /\ porcupine = "none"
  /\ speech_recognizer = "none"

NextHandler ==
  \/ \E command \in CustomPhrases, function \in CustomEffects :
       add_custom_command(command, function)
  \/ \E command \in RemovePhrases : remove_command(command)
  \/ \E command_text \in InputTexts : execute_command(command_text)
  \/ tts_process_queue
  \/ tts_shutdown

SpecHandler == InitHandler /\ [][NextHandler]_vars

----------------------------------------------------------------------------
(* Properties of the dispatcher, checked under SpecHandler. *)

\* execute_command has been called since the registry last changed
Called == last_call.path # "no_call"

\* the entries whose phrase is a substring of the latest call's text
SubstringHits ==
  {i \in 1..Len(commands) :
     IsSubstring(commands[i].phrase, last_call.command_lower)}

IsDigit(ch) == \E i \in 1..Len(Digits) : Digits[i] = ch

\* two digits, a colon, two digits, a colon, two digits
IsHMS(arg) ==
  /\ Len(arg) = 8
  /\ arg[3] = ":"
  /\ arg[6] = ":"
  /\ \A i \in {1, 2, 4, 5, 7, 8} : IsDigit(arg[i])

(* C1: for every phrase P in the registry, a call of execute_command on P
   invokes the effect bound to P, and no other, and returns what that effect
   returned. *)
C1_RegisteredPhraseInvokesItsEffect ==
  \A i \in 1..Len(commands) :
    (Called /\ last_call.text = commands[i].phrase) =>
      /\ last_call.invoked = <<commands[i].effect>>
      /\ (~last_call.raised =>
            Ok(last_call.result) \in EffectOutcomes(commands[i].effect))

(* C2: when the normalised text is no registered phrase but registered
   phrases are substrings of it, exactly one effect is invoked: that of the
   entry that comes first in registration order among those substrings. *)
C2_EarliestSubstringWins ==
  (Called /\ KeyIndex(commands, last_call.command_lower) = 0
          /\ SubstringHits # {}) =>
    \E i \in SubstringHits :
      /\ \A j \in SubstringHits : i <= j
      /\ last_call.path = "partial"
      /\ last_call.matched = commands[i].phrase
      /\ last_call.invoked = <<commands[i].effect>>

\* a call took the substring path with several registered phrases in its text
C2_Witness ==
  /\ Called
  /\ last_call.path = "partial"
  /\ Cardinality(SubstringHits) >= 2
  /\ Len(commands) > Len(_initialize_commands)
  /\ last_call.text = Str_b_sp_a

(* C3: when the normalised text is no registered phrase and no registered
   phrase is a substring of it, no effect is invoked and the fixed
   not-understood response is returned. *)
C3_NoMatchNotUnderstood ==
  (Called /\ KeyIndex(commands, last_call.command_lower) = 0
          /\ SubstringHits = {}) =>
    /\ last_call.path = "none"
    /\ last_call.invoked = <<>>
    /\ last_call.result = NotFoundResponse

\* "bla bla bla" was dispatched and matched nothing
C3_Witness ==
  /\ Called
  /\ last_call.text = Str_bla_bla_bla
  /\ SubstringHits = {}
  /\ last_call.result = NotFoundResponse

C5_EffectFailureIsCaught ==
  /\ [](Called =>
         /\ ~last_call.propagated
         /\ (last_call.raised =>
               /\ last_call.result.text = "Oshibka vypolneniya komandy: "
               /\ last_call.result.arg # <<>>))
  /\ [][last_call'.path # "no_call" => commands' = commands]_vars

\* an effect raised on the substring path
C5_Witness ==
  /\ Called
  /\ last_call.raised
  /\ last_call.path = "partial"

(* C6, as claimed: the response a call returns is the text handed to
   speak_response, exactly once per call. *)
C6_ReturnedIsSpoken_AsClaimed ==
  Called => last_call.spoken = <<last_call.result>>

(* C6, amended: every call hands exactly one text to speak_response: the
   response it returns when the effect succeeds or nothing matches, and the
   fixed phrase "Proizoshla oshibka" when the effect fails, the call then
   returning the error message instead. *)
C6_OneTextSpokenPerCall ==
  Called =>
    /\ Len(last_call.spoken) = 1
    /\ (~last_call.raised => last_call.spoken = <<last_call.result>>)
    /\ (last_call.raised =>
          /\ last_call.spoken = <<GenericError>>
          /\ last_call.result.text = "Oshibka vypolneniya komandy: ")

\* an effect raised and the fixed phrase was spoken
C6_Witness ==
  /\ Called
  /\ last_call.raised
  /\ last_call.spoken = <<GenericError>>
  /\ last_call.result # GenericError

----------------------------------------------------------------------------
(* Properties of the pipeline, checked under Spec. *)

\* m: the smallest count of frames whose duration reaches silence_duration
FramesToSilence ==
  CHOOSE m \in 1..(silence_duration + 1) :
    /\ m * TickStep >= silence_duration
    /\ \A j \in 1..(m - 1) : j * TickStep < silence_duration

\* the recording loop is between two iterations of an episode
InRecordingLoop == pc \in {"rec_loop", "rec_get"} /\ end_reason = "none"

(* C7, as claimed: with the frames consumed one frame duration apart, an
   episode that ends by silence ends when the m-th frame of the silent run is
   consumed, m being the smallest count with m x frameDuration >=
   silenceDuration. *)
C7_EndsAtSilentFrameM_AsClaimed ==
  (pc = "rec_ret" /\ end_reason = "silence" /\ paced) =>
    silent_run = FramesToSilence

(* C7, amended: the silence timer starts when the first silent frame is
   consumed, so with the frames consumed one frame duration apart an episode
   that ends by silence ends when silent frame m + 1 is consumed, and no
   episode goes on after that frame. *)
C7_EndsAtSilentFrameMPlusOne ==
  /\ (pc = "rec_ret" /\ end_reason = "silence" /\ paced) =>
       silent_run = FramesToSilence + 1
  /\ (InRecordingLoop /\ paced) => silent_run <= FramesToSilence

\* an episode of one loud frame and then silent frames, consumed one frame
\* duration apart, has just ended by silence
C7_Witness ==
  /\ pc = "rec_ret"
  /\ end_reason = "silence"
  /\ paced
  /\ silent_run >= 1
  /\ Len(recorded_audio) = silent_run + 1

(* C8: a recording episode does not go on once its elapsed time exceeds the
   30-second ceiling: no iteration of the recording loop completes past the
   ceiling and leaves the episode running. *)
C8_NoIterationPastCeiling ==
  pc = "rec_loop" => ~over_cap

(* C9: once stop_listening has been called, an utterance that was being
   recorded at or after that call reaches neither recognition nor
   dispatch. *)
C9_StoppedUtteranceNotProcessed ==
  cancelled => pc \notin ProcessPcs

(* C10: is_recording is false initially; it becomes true only in the step
   that follows a frame the gating loop dequeued, while is_recording was
   false, and the gate accepted; it is false again once record_until_silence
   has returned; while it is true the pipeline is inside record_until_silence,
   so no frame reaches the gate and no second episode starts; and
   activation_count is the number of episodes started. *)
C10_ActivationState ==
  /\ ~is_recording
  /\ [](is_recording => pc \in RecordingPcs)
  /\ [](pc \in {"gate", "gate_get", "activate"} \cup ProcessPcs => ~is_recording)
  /\ [](activation_count = episodes_started)
  /\ [][(is_recording' /\ ~is_recording) =>
          (pc = "activate" /\ pc' = "rec_loop")]_vars
  /\ [][(pc' = "activate" /\ pc # "activate") =>
          /\ pc = "gate_get"
          /\ ~is_recording
          /\ audio_queue # <<>>
          /\ audio_queue' = Tail(audio_queue)
          /\ \E detector_raises \in BOOLEAN :
                detect_activation_word(Head(audio_queue), porcupine,
                                       detector_raises, noise_adapted,
                                       noise_profile)]_vars
  /\ [][(pc = "rec_ret" /\ pc' # "rec_ret") => ~is_recording']_vars
  /\ [][episodes_started' # episodes_started =>
          (~is_recording /\ is_recording'
             /\ episodes_started' = episodes_started + 1)]_vars

\* a second episode has ended and the state is idle again
C10_Witness ==
  /\ activation_count = 2
  /\ episodes_started = 2
  /\ ~is_recording
  /\ pc = "process"

(* C11: every call of recognize_audio is followed by exactly one call of
   reset_recognizer before recognize_audio is called again, also when the
   engine raises and when the dispatch or the telemetry write fails: the
   resets never run ahead of the recognitions nor fall more than one behind,
   they are level outside a cycle, and each recognition starts level. *)
C11_OneResetPerRecognition ==
  /\ [](reset_calls <= recognize_calls /\ recognize_calls <= reset_calls + 1)
  /\ [](pc \notin {"dispatch", "telemetry", "reset"} =>
          reset_calls = recognize_calls)
  /\ [][recognize_calls' # recognize_calls =>
          (reset_calls = recognize_calls
             /\ recognize_calls' = recognize_calls + 1)]_vars
  /\ [][reset_calls' # reset_calls => reset_calls' = recognize_calls]_vars

\* a cycle whose telemetry write failed has been reset and is on its way to
\* start_listening's handler
C11_Witness ==
  /\ pc = "finally"
  /\ is_listening
  /\ stream_open
  /\ recognize_calls = 1
  /\ reset_calls = 1

(* C12: when record_until_silence returns an empty buffer, recognize_audio
   is not called, nothing is dispatched or spoken, and the pipeline is back
   at the head of the gating loop. *)
C12_EmptyBufferSkipsRecognition ==
  /\ [](pc \in ProcessPcs => recorded_audio # <<>>)
  /\ [][(pc = "rec_ret" /\ pc' # "rec_ret" /\ recorded_audio = <<>>) =>
          /\ pc' = "gate"
          /\ recognize_calls' = recognize_calls
          /\ last_call' = last_call
          /\ speech_queue' = speech_queue]_vars

\* the only frame ever captured was the wake word, so the one episode ended
\* with an empty buffer, and the pipeline is gating again
C12_Witness ==
  /\ pc = "gate"
  /\ captured = 1
  /\ episodes_started = 1
  /\ ~is_recording
  /\ speech_recognizer = "ready"
  /\ recognize_calls = 0

(* C13: when recognize_audio returns the empty text, execute_command is not
   called, nothing is handed to speak_response, and after the reset the
   pipeline is back at the head of the gating loop. *)
C13_EmptyTextEndsCycle ==
  /\ [](pc \in {"dispatch", "telemetry"} => recognized_text # <<>>)
  /\ [][(recognize_calls' # recognize_calls /\ recognized_text' = <<>>) =>
          /\ pc' = "reset"
          /\ last_call' = last_call
          /\ speech_queue' = speech_queue]_vars
  /\ [][(pc = "reset" /\ pc' # "reset" /\ recognized_text = <<>>) =>
          /\ pc' = "gate"
          /\ last_call' = last_call
          /\ speech_queue' = speech_queue]_vars

\* a cycle went through recognition and reset without any dispatch
C13_Witness ==
  /\ pc = "gate"
  /\ is_listening
  /\ recognize_calls = 1
  /\ reset_calls = 1
  /\ last_call = NoCall

(* C14: when the engine raises inside recognize_audio the result is the empty
   text and no exception is under way, and the cycle ends at the head of the
   gating loop with is_listening as it was. *)
C14_EngineErrorYieldsEmptyText ==
  /\ [](stt_error => (pc = "reset" /\ recognized_text = <<>> /\ ~exc_pending))
  /\ [][(stt_error' /\ ~stt_error) => is_listening' = is_listening]_vars
  /\ [][(stt_error /\ pc' # pc) =>
          (pc' = "gate" /\ is_listening' = is_listening)]_vars

\* the engine has just raised while the session is listening
C14_Witness ==
  /\ stt_error
  /\ is_listening
  /\ pc = "reset"

(* C15: a failure of the telemetry write does not end the gating loop: in a
   session that is listening, the cycle whose write failed goes back to the
   head of the gating loop. *)
C15_TelemetryFailureKeepsListening ==
  [][(pc = "reset" /\ exc_pending /\ is_listening /\ pc' # pc) =>
       pc' = "gate"]_vars

(* C18: when Porcupine raises on a frame, detect_activation_word returns
   false for it: the frame is consumed, no recording episode starts and
   activation_count stays, is_listening is not written, and the gating loop
   goes on to take the next frame. *)
C18_DetectorErrorIsNotDetected ==
  /\ [](detector_error => (pc = "gate" /\ ~is_recording))
  /\ [][(detector_error' /\ ~detector_error) =>
          /\ pc = "gate_get"
          /\ pc' = "gate"
          /\ audio_queue' = Tail(audio_queue)
          /\ activation_count' = activation_count
          /\ episodes_started' = episodes_started
          /\ is_listening' = is_listening]_vars
  /\ [][(detector_error /\ is_listening /\ pc' # pc) => pc' = "gate_get"]_vars

\* Porcupine has just raised on the first frame of a listening session
C18_Witness ==
  /\ detector_error
  /\ is_listening
  /\ captured = 1
  /\ audio_queue = <<>>
  /\ activation_count = 0

\* the latest calibration captured no samples
CalibratedOnNothing == calibration.ran /\ calibration.samples = <<>>

\* the gating loop takes a frame and gives its verdict
GateStep == pc = "gate_get" /\ audio_queue # <<>> /\ pc' # "gate_get"

\* the recording loop takes a frame
RecordStep == Len(recorded_audio') > Len(recorded_audio)

\* C16: when the noise calibration captures zero samples, noise_adapted stays
\* false and noise_profile stays unset, and from then on the fallback gate
\* detects a frame exactly when its RMS exceeds the fixed gate default and the
\* silence check calls a frame silent exactly when its RMS is below
\* silence_threshold: no noise-derived value is used.
C16_NoSamplesKeepsDefaults ==
  /\ [](CalibratedOnNothing =>
          /\ ~noise_adapted
          /\ noise_profile = 0
          /\ GateThreshold(noise_adapted, noise_profile) = FallbackThreshold
          /\ SilenceThreshold(noise_adapted, noise_profile) = silence_threshold)
  /\ [][(CalibratedOnNothing /\ porcupine = "none" /\ GateStep) =>
          (pc' = "activate" <=> Head(audio_queue).vol > FallbackThreshold)]_vars
  /\ [][(CalibratedOnNothing /\ RecordStep) =>
          (silent_run' > 0 <=> Head(audio_queue).vol < silence_threshold)]_vars

\* a calibration captured nothing; the fallback gate then let an utterance
\* through and the silence check has just called a frame of it silent
C16_Witness ==
  /\ CalibratedOnNothing
  /\ porcupine = "none"
  /\ is_recording
  /\ pc = "rec_loop"
  /\ silent_run = 1

\* C17 (as claimed): without a native detector the fallback gate detects a
\* frame exactly when its RMS exceeds max(noiseFloor * 4, fixedDefault).
\* Violated: after a calibration in a quiet room the threshold is
\* noiseFloor * 4 alone, so with a noise floor of 5 a frame of RMS 30, below
\* the fixed default of 50, is detected.
C17_GateUsesMaxOfNoiseAndDefault ==
  [][(porcupine = "none" /\ GateStep) =>
       (pc' = "activate" <=>
          Head(audio_queue).vol > Max(noise_profile * 4, FallbackThreshold))]_vars

\* C19 (as claimed): the capture queue is bounded, so while the pipeline thread
\* is recognizing or dispatching the queue stops growing only because its own
\* capacity is reached. Violated: the queue has no capacity (QueueFull never
\* holds) and the callback fills it as far as the exploration lets it.
C19_CaptureQueueBounded ==
  (is_listening /\ stream_open /\ pc \in ProcessPcs) =>
    (Len(audio_queue) < MaxQueue \/ QueueFull(audio_queue))

\* the text-to-speech collaborator cannot take a text: TTS disabled, failed to
\* initialise, or already shut down
TTSUnavailable == ~enable_tts \/ tts_engine # "ready" \/ tts_shutdown_flag

\* how many of the texts handed to the sink are non-empty
TruthyCount(texts) == Cardinality({i \in DOMAIN texts : Truthy(texts[i])})

\* C20: sending a response is a silent no-op when the text is empty or the
\* text-to-speech collaborator is unavailable: the speech queue grows only
\* when the collaborator is available, and then by exactly the non-empty
\* texts sent; no call lets an error out; and what the call returns is what
\* the registry, the text and the effect determine, whatever the state of TTS.
C20_SendIsSilentNoOp ==
  /\ [][Len(speech_queue') > Len(speech_queue) =>
          /\ ~TTSUnavailable
          /\ Len(speech_queue') - Len(speech_queue) =
               TruthyCount(last_call'.spoken)]_vars
  /\ [](Called =>
          /\ ~last_call.propagated
          /\ \E outcome \in MatchOutcomes(commands, last_call.text) :
               last_call = ExecuteCommand(commands, last_call.text, outcome))

\* a call has returned a non-empty response after TTS was shut down, and
\* nothing is in the speech queue
C20_Witness ==
  /\ Called
  /\ enable_tts
  /\ tts_engine = "ready"
  /\ tts_shutdown_flag
  /\ Truthy(last_call.result)
  /\ TruthyCount(last_call.spoken) = 1
  /\ speech_queue = <<>>

\* C21 (as claimed): a failure while releasing the wake-word detector is
\* logged and not re-thrown, so cleanup always returns normally. Violated:
\* cleanup calls delete with no try/except, so what delete raises leaves
\* cleanup.
C21_CleanupNeverRethrows == cleanup_result # "raised"

\* C22 (as claimed): every recording episode eventually ends, also when the
\* capture queue starves. Violated: with no frame arriving, every iteration
\* of the recording loop ends in "except queue.Empty: continue", which skips
\* the test of the 30-second ceiling, so the loop runs until stop_listening
\* is called.
C22_EpisodeEventuallyEnds ==
  (pc \in RecordingPcs) ~> (pc \notin RecordingPcs)

\* C23 (as claimed): once stop_listening has been called, the pipeline thread
\* sees the stop the next time it is at the top of the gating loop or of the
\* recording loop, and leaves the loop. Violated: a stop that falls between
\* the detection of the wake word and "self.is_recording = True" is
\* overwritten, so the recording loop's test passes and the loop goes on
\* taking frames after the stop.
C23_StopSeenAtLoopTop ==
  /\ [][(stop_called /\ pc = "gate" /\ pc' # pc) => pc' = "finally"]_vars
  /\ [][(stop_called /\ pc = "rec_loop" /\ pc' # pc) => pc' = "rec_ret"]_vars

\* C24: the silence timer is unset by every non-silent frame, so the timer
\* is always the time at which the latest unbroken run of silent frames
\* began, and an episode ends by silence only when at least silence_duration
\* lies between the first and the last frame of that run.
C24_SilentRunsDoNotAddUp ==
  /\ pc \in RecordingPcs => silence_start_time = silence_run_start
  /\ (pc \in RecordingPcs /\ silent_run = 0) => silence_start_time = NoTime
  /\ (pc = "rec_ret" /\ end_reason = "silence") =>
       /\ silent_run >= 2
       /\ silence_run_start # NoTime
       /\ last_get_time - silence_run_start >= silence_duration

\* an episode has taken a silent frame, a non-silent one and a silent one,
\* one clock step apart: silence_duration has passed since the first silent
\* frame, and the episode goes on
C24_Witness ==
  /\ pc = "rec_loop"
  /\ is_recording
  /\ end_reason = "none"
  /\ run_broken
  /\ paced
  /\ Len(recorded_audio) = 3
  /\ silent_run = 1
  /\ last_get_time - recording_start_time >= 2 * silence_duration

\* C25: is_silence classifies a chunk as silent exactly when it has zero
\* length or its RMS is strictly below the threshold, the threshold being
\* the larger of twice the noise profile and silence_threshold when the
\* profile is adapted, and silence_threshold otherwise.
C25_SilentIffBelowThreshold ==
  probe.called =>
    (probe.result <=>
       \/ probe.chunk.len = 0
       \/ probe.chunk.vol <
            (IF probe.adapted /\ probe.profile * 2 > silence_threshold
             THEN probe.profile * 2
             ELSE silence_threshold))

\* with a noise profile of 20 a chunk whose RMS is exactly the threshold, 40,
\* was found not silent
C25_Witness ==
  /\ probe.called
  /\ probe.adapted
  /\ probe.profile = 20
  /\ probe.chunk.len = BlockSize
  /\ probe.chunk.vol = 40
  /\ ~probe.result

\* how many frames have left the capture queue; the queue is first-in
\* first-out and the frames are numbered as captured, so this is also the
\* number of the frame taken last
Dequeued == captured - Len(audio_queue)

\* C26: during an episode and at its hand-off the buffer holds exactly the
\* frames that left the capture queue since the episode began, in capture
\* order, each once: it holds neither the frame that triggered the
\* activation nor any frame taken before it.
C26_UtteranceIsTheEpisodesFrames ==
  (pc \in RecordingPcs \/ pc = "process") =>
    /\ Len(recorded_audio) = Dequeued - episode_base
    /\ \A i \in 1..Len(recorded_audio) : recorded_audio[i] = episode_base + i

\* the utterance of a second episode is handed off: two frames, both taken
\* after the frame that triggered that episode
C26_Witness ==
  /\ pc = "process"
  /\ episodes_started = 2
  /\ episode_base >= 2
  /\ Len(recorded_audio) = 2

\* C27 (as claimed): whenever start_listening has returned, is_listening is
\* false. Violated: when setup_audio_device fails, start_listening returns
\* after it has set is_listening and before its try/finally, so the flag
\* stays true and the next call is turned away as already listening.
C27_ReturnedMeansNotListening == pc = "stopped" => ~is_listening

\* C28: once a calibration has produced an adapted noise profile, no step of
\* a listening session (a later start_listening call, gating, recording,
\* recognition, dispatch, stop) changes noise_profile or noise_adapted, and
\* the calibration is not run again: the samples it captured stay the ones
\* on record.
C28_AdaptedProfileIsReadOnly ==
  [][noise_adapted =>
       /\ noise_adapted'
       /\ noise_profile' = noise_profile
       /\ calibration'.ran
       /\ calibration'.samples = calibration.samples]_vars

\* a later start_listening call found the profile adapted and skipped the
\* calibration, and an utterance of that session has been dispatched
C28_Witness ==
  /\ noise_adapted
  /\ calibration.skipped
  /\ is_listening
  /\ ~stop_called
  /\ Called
  /\ pc = "telemetry"

\* C29: in every registry the handler can be in, add_custom_command stores
\* the phrase lower-cased; adding a registered phrase replaces its effect and
\* leaves every phrase at its position in the scan order; adding an
\* unregistered phrase puts it last; removing a phrase and adding it again
\* puts it last, the others keeping their order; and remove_command of an
\* unregistered phrase leaves the registry as it was.
C29_RegistryMutationAndOrder ==
  /\ \A i \in 1..Len(commands) : Lower(commands[i].phrase) = commands[i].phrase
  /\ \A command \in CustomPhrases, function \in CustomEffects :
       LET k == Lower(command)
           i == KeyIndex(commands, k)
           n == Len(commands)
           added == AddCustomCommand(commands, command, function)
           readded == AddCustomCommand(RemoveCommand(commands, command),
                                       command, function)
       IN /\ KeyIndex(added, k) # 0
          /\ added[KeyIndex(added, k)].effect = function
          /\ i # 0 =>
               /\ Len(added) = n
               /\ \A j \in 1..n : added[j].phrase = commands[j].phrase
               /\ \A j \in 1..n : j # i => added[j] = commands[j]
               /\ Len(readded) = n
               /\ readded[n] = [phrase |-> k, effect |-> function]
               /\ \A j \in 1..(i - 1) : readded[j] = commands[j]
               /\ \A j \in i..(n - 1) : readded[j] = commands[j + 1]
          /\ i = 0 =>
               /\ Len(added) = n + 1
               /\ added[n + 1] = [phrase |-> k, effect |-> function]
               /\ \A j \in 1..n : added[j] = commands[j]
  /\ \A command \in RemovePhrases :
       KeyIndex(commands, Lower(command)) = 0 =>
         RemoveCommand(commands, command) = commands

\* the registry holds the custom phrase "a" followed by another custom
\* phrase: adding "A" now replaces an effect in place, and removing "a" and
\* adding it again moves it behind the other
C29_Witness ==
  /\ Len(commands) = Len(_initialize_commands) + 2
  /\ KeyIndex(commands, Str_a) = Len(_initialize_commands) + 1
  /\ KeyIndex(commands, Str_A) = 0
  /\ commands[Len(commands)].phrase # Str_a

\* C30 (as claimed): once TTSEngine.shutdown has returned, the speech queue
\* is empty and the worker begins to speak no further text, whatever the
\* interleaving. Violated: speak tests _shutdown_flag and puts the text in
\* two steps; a shutdown that runs between them drains the queue before the
\* put, and the text stays in the queue of a stopped engine.
C30_NothingQueuedAfterShutdown ==
  shutdown_pc = "returned" => (speech_queue = <<>> /\ ~late_speech)

\* C31 (as claimed): in the manual recorder, the snapshot command "2" takes
\* holds, in capture order, exactly the frames the callback enqueued between
\* the preceding command "1" and that command "2", whatever the interleaving
\* of the callback, the drain thread and the command loop. Violated: the
\* snapshot copies audio_data, which holds only what the drain thread has
\* moved; a frame still in the queue at command "2" is missing from it.
C31_SnapshotIsTheEnqueuedFrames ==
  (main_pc = "input" /\ ~window_open /\ ~main_recorded_audio.none)
    => main_recorded_audio.data = enqueued

====
